---- MODULE Spec2Model ----
(***************************************************************************)
(* m2py: Power Query (M) -> pandas translator (m2py_core.py), the         *)
(* cross-query dependency resolver (query_resolver.py, m2py_cli.py) and    *)
(* the Excel COM extractor (excel_com_extractor.py).                       *)
(*                                                                         *)
(* Text is modelled as sequences of one-character strings, so that the     *)
(* character-level functions (_normalize_var, the comment marker of the    *)
(* fallback) are computed rather than assumed.  The emission buffer `py`   *)
(* is a sequence of entries, one per add() call; an entry keeps the        *)
(* statement's kind (tag), the identifier it binds (target), the           *)
(* identifier it reads (src) and, where the text itself matters, the       *)
(* characters of the line (text).                                          *)
(*                                                                         *)
(* The matcher chain of one step (SpecStep) works on the right-hand side   *)
(* as a sequence of tokens.  Each regular expression of the chain is a     *)
(* pattern over tokens that a backtracking matcher (Run) applies the way   *)
(* re.search, re.match and re.findall do, and each block's statements are  *)
(* records of the pandas call and its arguments.                           *)
(***************************************************************************)
EXTENDS Integers, Sequences, FiniteSets, TLC

\* ------------------------------------------------------------------ bounds
\* steps of one let body
MaxSteps == 2
\* elements of the JSON list an embedded compressed literal decodes to
MaxElems == 2
\* queries of one mapping handed to the dependency resolver
MaxQueries == 3

\* ---------------------------------------------------------------- strings
Letters ==
    {"A","B","C","D","E","F","G","H","I","J","K","L","M","N","O","P","Q","R",
     "S","T","U","V","W","X","Y","Z","a","b","c","d","e","f","g","h","i","j",
     "k","l","m","n","o","p","q","r","s","t","u","v","w","x","y","z"}
Digits == {"0","1","2","3","4","5","6","7","8","9"}
Whitespace == {" ", "\n", "\t", "\r"}

\* Python's None for an Optional[str]; `if last_df:` is false for it
NoneStr == <<>>

StartsWith(s, p) == Len(s) >= Len(p) /\ SubSeq(s, 1, Len(p)) = p
EndsWith(s, p) == Len(s) >= Len(p) /\ SubSeq(s, Len(s) - Len(p) + 1, Len(s)) = p

\* str.strip(chars) / str.strip(): drop the characters of cs at both ends
StripChars(s, cs) ==
    IF \A i \in 1..Len(s) : s[i] \in cs THEN <<>>
    ELSE LET lo == CHOOSE i \in 1..Len(s) :
                      s[i] \notin cs /\ \A j \in 1..(i-1) : s[j] \in cs
             hi == CHOOSE i \in 1..Len(s) :
                      s[i] \notin cs /\ \A j \in (i+1)..Len(s) : s[j] \in cs
         IN SubSeq(s, lo, hi)

\* str.lstrip()
LStrip(s) ==
    IF \A i \in 1..Len(s) : s[i] \in Whitespace THEN <<>>
    ELSE LET lo == CHOOSE i \in 1..Len(s) :
                      s[i] \notin Whitespace /\ \A j \in 1..(i-1) : s[j] \in Whitespace
         IN SubSeq(s, lo, Len(s))

\* str.split("\n"): the lines of a text
RECURSIVE SplitLines(_)
SplitLines(s) ==
    IF \A i \in 1..Len(s) : s[i] # "\n" THEN << s >>
    ELSE LET k == CHOOSE i \in 1..Len(s) :
                     s[i] = "\n" /\ \A j \in 1..(i-1) : s[j] # "\n"
         IN << SubSeq(s, 1, k - 1) >> \o SplitLines(SubSeq(s, k + 1, Len(s)))

\* the placeholder _normalize_var returns for a name that normalizes to nothing
StepPlaceholder == <<"s","t","e","p">>

\* the character class [0-9A-Za-z_]
WordChars == Letters \cup Digits \cup {"_"}

\* re.sub(r"[^0-9A-Za-z_]", "_", name)
SubNonWord(s) == [i \in 1..Len(s) |-> IF s[i] \in WordChars THEN s[i] ELSE "_"]

\* the normalizer as it would be without the guard on a leading digit
_normalize_var_NoDigitGuard(name) ==
    LET s1 == StripChars(name, Whitespace)
        s2 == IF StartsWith(s1, <<"#", "\"">>) /\ EndsWith(s1, <<"\"">>)
              THEN SubSeq(s1, 3, Len(s1) - 1)
              ELSE s1
        s3 == StripChars(StripChars(StripChars(s2, Whitespace), {"\""}), {"'"})
        s4 == SubNonWord(s3)
    IN IF s4 = <<>> THEN StepPlaceholder ELSE s4

\* the normalizer as it would be if it marked every name it has handled
_normalize_var_Marking(name) ==
    LET s1 == StripChars(name, Whitespace)
        s2 == IF StartsWith(s1, <<"#", "\"">>) /\ EndsWith(s1, <<"\"">>)
              THEN SubSeq(s1, 3, Len(s1) - 1)
              ELSE s1
        s3 == StripChars(StripChars(StripChars(s2, Whitespace), {"\""}), {"'"})
        s4 == SubNonWord(s3)
    IN IF s4 = <<>> THEN StepPlaceholder ELSE <<"_">> \o s4

_normalize_var(name) ==
    LET s1 == StripChars(name, Whitespace)
        s2 == IF StartsWith(s1, <<"#", "\"">>) /\ EndsWith(s1, <<"\"">>)
              THEN SubSeq(s1, 3, Len(s1) - 1)
              ELSE s1
        s3 == StripChars(StripChars(StripChars(s2, Whitespace), {"\""}), {"'"})
        s4 == SubNonWord(s3)
        s5 == IF s4 # <<>> /\ s4[1] \in Digits THEN <<"_">> \o s4 ELSE s4
    IN IF s5 = <<>> THEN StepPlaceholder ELSE s5

\* ------------------------------------------------------------- input sets
\* binding names as written in a script: A and #"B c"
RawNames == { <<"A">>, <<"#", "\"", "B", " ", "c", "\"">> }
\* the caller's query name
QueryNames == { <<"M","y"," ","Q">> }
\* right-hand sides no matcher recognizes: F(1) on one line, and F(1, 2)
\* with a line break after the comma
UnrecognizedRhs ==
    { <<"F","(","1",")">>, <<"F","(","1",",","\n"," ","2",")">> }
\* workbook table names of Excel.CurrentWorkbook(){[Name="..."]}[Content]
TableNames == { <<"T">> }
\* JSON element types an embedded payload's list can hold
ElemTypes == {"list", "dict", "str", "num", "null"}

RECURSIVE SeqsUpTo(_, _)
SeqsUpTo(S, n) ==
    IF n = 0 THEN { <<>> }
    ELSE LET shorter == SeqsUpTo(S, n - 1)
         IN shorter \cup { Append(q, x) : q \in shorter, x \in S }

\* what the Base64 text of Table.FromRows(Json.Document(Binary.Decompress(...)))
\* decodes to: nothing (decodes = FALSE), a JSON value that is no list, or a
\* list of elements; large: the rows exceed the inline limits (more than 200
\* rows or more than 8000 characters of values)
Payloads ==
    { [decodes |-> FALSE, json |-> "none", elems |-> <<>>, large |-> FALSE],
      [decodes |-> TRUE, json |-> "other", elems |-> <<>>, large |-> FALSE] }
    \cup { p \in { [decodes |-> TRUE, json |-> "list", elems |-> es, large |-> lg] :
                       es \in SeqsUpTo(ElemTypes, MaxElems), lg \in BOOLEAN } :
             p.large => p.elems # <<>> }

\* ------------------------------------------------------------------ state
VARIABLES
    \* convert_m_to_python
    m_code,        \* shape of the script: [hasLet, inName]
    query_name,    \* the caller's query name
    pc,            \* "start", "loop", "done", "raised", and "idle" when unused
    let_match,     \* did the let ... in <name> regex match
    out_name_raw,  \* group(2) of the match, or query_name
    nread,         \* pieces of _split_let_body consumed by the loop
    steps,         \* the (lhs_raw, matcher) of every step processed so far
    env,           \* Binding Environment: lhs_raw -> normalized identifier
    last_df,       \* last produced identifier or NoneStr
    cw_needed,
    py,            \* emission buffer; after return, the lines of the output
    exc,           \* the exception that left the call, or "none"
    \* query_resolver
    queries,       \* the mapping, in insertion order: <<[name, script], ...>>
    call,          \* the resolver call made: [op, target]
    ret,           \* its result: [err, val]
    \* the text functions (_normalize_var, _split_let_body,
    \* _strip_line_comments / find_query_refs)
    arg,           \* the text handed to the function
    given,         \* what the text was written from (the steps of a let body)
    fn,            \* the function applied, or "none"
    res,           \* what it returned
    \* excel_com_extractor
    book,          \* per thread: the items of the workbook its call has read
    callers,       \* the threads that make an extraction call
    th,            \* per thread: the frame of its extraction call
    proc           \* per thread: the COM runtime, host process and document

convVars == << m_code, query_name, pc, let_match, out_name_raw, nread, steps,
               env, last_df, cw_needed, py, exc >>
resVars == << queries, call, ret >>
txtVars == << arg, given, fn, res >>
comVars == << book, callers, th, proc >>
vars == << convVars, resVars, txtVars, comVars >>

\* ------------------------------------------------------- emission entries
Entry(tag, target, src, text) ==
    [tag |-> tag, target |-> target, src |-> src, text |-> text]
Stmt(tag, target) == Entry(tag, target, NoneStr, <<>>)

\* py = ["import pandas as pd", "import numpy as np", ""]
Header == << Stmt("import_pd", NoneStr), Stmt("import_np", NoneStr),
             Stmt("blank", NoneStr) >>
header_len == Len(Header)

EmptyEnv == [k \in {} |-> NoneStr]
\* env[k] = v
EnvSet(e, k, v) == [x \in DOMAIN e \cup {k} |-> IF x = k THEN v ELSE e[x]]
\* env.get(k, default)
EnvGet(e, k, default) == IF k \in DOMAIN e THEN e[k] ELSE default


\* ------------------------------------------------- convert_m_to_python
\* the `let` keyword as it stays in front of the first piece when the
\* let ... in regex does not match and let_body is the whole script
LetPrefix == <<"l","e","t"," ">>

\* lhs_raw of the piece being read: raw.split("=", 1)[0].strip()
LhsRaw(name) ==
    IF m_code.hasLet /\ ~let_match /\ nread = 0 THEN LetPrefix \o name ELSE name

\* lines 86-109: the let ... in <name> regex and the initial locals
Parse ==
    /\ pc = "start"
    /\ let_match' = (m_code.hasLet /\ m_code.inName # NoneStr)
    /\ out_name_raw' = IF let_match' THEN m_code.inName ELSE query_name
    /\ py' = Header
    /\ env' = EmptyEnv
    /\ last_df' = NoneStr
    /\ cw_needed' = FALSE
    /\ pc' = "loop"
    /\ UNCHANGED << m_code, query_name, nread, steps, exc, resVars, txtVars, comVars >>

\* `if not raw or "=" not in raw: continue`
SkipPiece ==
    /\ pc = "loop" /\ nread < MaxSteps
    /\ nread' = nread + 1
    /\ UNCHANGED << m_code, query_name, pc, let_match, out_name_raw, steps, env,
                    last_df, cw_needed, py, exc, resVars, txtVars, comVars >>

\* the tail every matcher block shares: its add() calls, then
\* env[lhs_raw] = lhs; last_df = lhs; continue
Recognized(name, op, entries) ==
    /\ pc = "loop" /\ nread < MaxSteps
    /\ py' = py \o entries
    /\ env' = EnvSet(env, LhsRaw(name), _normalize_var(LhsRaw(name)))
    /\ last_df' = _normalize_var(LhsRaw(name))
    /\ steps' = Append(steps, [lhs_raw |-> LhsRaw(name), op |-> op])
    /\ nread' = nread + 1
    /\ UNCHANGED << m_code, query_name, pc, let_match, out_name_raw, exc, resVars, txtVars, comVars >>

\* a matcher block whose statements all bind or update lhs; the arguments
\* of the call (source table, columns, keys) are not part of this model
Plain(op) ==
    \E name \in RawNames :
        /\ Recognized(name, op, << Stmt(op, _normalize_var(LhsRaw(name))) >>)
        /\ UNCHANGED cw_needed

MatchCurrentWorkbook ==
    \E name \in RawNames, nm \in TableNames :
        /\ Recognized(name, "Excel.CurrentWorkbook",
               << Entry("cw_get", _normalize_var(LhsRaw(name)), nm, <<>>) >>)
        /\ cw_needed' = TRUE

MatchCsvDocument == Plain("Csv.Document")
MatchPromoteHeaders == Plain("Table.PromoteHeaders")
MatchTransformColumnTypes == Plain("Table.TransformColumnTypes")
MatchAddColumn == Plain("Table.AddColumn")
MatchSelectRows == Plain("Table.SelectRows")
MatchSort == Plain("Table.Sort")
MatchGroup == Plain("Table.Group")
MatchExpandRecordColumn == Plain("Table.ExpandRecordColumn")
MatchExpandTableColumn == Plain("Table.ExpandTableColumn")
MatchJoin == Plain("Table.Join")
MatchFromRecords == Plain("Table.FromRecords")
MatchHashTable == Plain("#table")

\* lines 588-598: rows = json.loads(...) inside try/except; None when the
\* payload does not decode
RowsIsList(payload) == payload.decodes /\ payload.json = "list"

\* lines 608-612: building dict_rows. With a dict first, r.get(c) is called
\* on every element; otherwise len(r) and r[i] are. Returns the exception
\* the first offending element raises, or "none".
DictRowsError(elems) ==
    IF elems # <<>> /\ elems[1] = "dict"
    THEN IF \E i \in 1..Len(elems) : elems[i] # "dict"
         THEN "AttributeError" ELSE "none"
    ELSE IF \A i \in 1..Len(elems) : elems[i] \in {"list", "str"}
         THEN "none"
         ELSE LET k == CHOOSE i \in 1..Len(elems) :
                          /\ elems[i] \notin {"list", "str"}
                          /\ \A j \in 1..(i-1) : elems[j] \in {"list", "str"}
              IN IF elems[k] = "dict" THEN "KeyError" ELSE "TypeError"

\* lines 600-605: _emit_runtime_decode
RuntimeDecode(lhs) ==
    << Stmt("rt_import", NoneStr), Stmt("rt_bin", NoneStr), Stmt("rt_try", NoneStr),
       Stmt("rt_rows", NoneStr), Stmt("rt_frame", lhs) >>

\* lines 616-619: the inline literal, one line per row
InlineRows(lhs, n) ==
    << Stmt("inline_open", lhs) >> \o [i \in 1..n |-> Stmt("inline_row", NoneStr)]
    \o << Stmt("inline_close", NoneStr) >>

\* lines 588-623: what the block does with one payload: the exception that
\* leaves it (err), else whether the rows are inlined and how many
FromRowsOutcome(payload) ==
    LET err == IF RowsIsList(payload) THEN DictRowsError(payload.elems) ELSE "none"
    IN [err |-> err,
        inline |-> err = "none" /\ RowsIsList(payload) /\ ~payload.large,
        n |-> IF err = "none" /\ RowsIsList(payload) /\ ~payload.large
              THEN Len(payload.elems) ELSE 0]

\* the outcomes of all payloads (payloads with the same outcome take the
\* same transition)
FromRowsOutcomes == { FromRowsOutcome(p) : p \in Payloads }

\* lines 572-627
MatchFromRows ==
    \E name \in RawNames, o \in FromRowsOutcomes :
        IF o.err # "none"
        THEN /\ pc = "loop" /\ nread < MaxSteps
             /\ pc' = "raised"
             /\ exc' = o.err
             /\ UNCHANGED << m_code, query_name, let_match, out_name_raw, nread,
                             steps, env, last_df, cw_needed, py, resVars, txtVars, comVars >>
        ELSE /\ Recognized(name, "Table.FromRows",
                    IF o.inline
                    THEN InlineRows(_normalize_var(LhsRaw(name)), o.n)
                    ELSE RuntimeDecode(_normalize_var(LhsRaw(name))))
             /\ UNCHANGED cw_needed

\* ref_raw of a direct reference: group(2) (the text inside #"...") or the
\* bare identifier
RefRaw(rhs) ==
    IF StartsWith(rhs, <<"#", "\"">>) THEN SubSeq(rhs, 3, Len(rhs) - 1) ELSE rhs

\* lines 629-641
MatchReference ==
    \E name \in RawNames, rhs \in RawNames :
        /\ Recognized(name, "reference",
               << Entry("copy", _normalize_var(LhsRaw(name)),
                        EnvGet(env, RefRaw(rhs), _normalize_var(RefRaw(rhs))), <<>>) >>)
        /\ UNCHANGED cw_needed

\* f"# Unsupported: {lhs} = {rhs}"
MarkerText(lhs, rhs) ==
    <<"#"," ","U","n","s","u","p","p","o","r","t","e","d",":"," ">>
    \o lhs \o <<" ", "=", " ">> \o rhs

\* lines 114-121: unsupported(lhs, rhs), called with lhs_raw at line 644
unsupported(lhs, rhs) ==
    /\ pc = "loop" /\ nread < MaxSteps
    /\ py' = py \o << Entry("marker", NoneStr, NoneStr, MarkerText(lhs, rhs)),
                      IF last_df # NoneStr
                      THEN Entry("copy", _normalize_var(lhs), last_df, <<>>)
                      ELSE Entry("none", _normalize_var(lhs), NoneStr, <<>>) >>
    /\ last_df' = _normalize_var(lhs)
    /\ steps' = Append(steps, [lhs_raw |-> lhs, op |-> "fallback"])
    /\ nread' = nread + 1
    /\ UNCHANGED << m_code, query_name, pc, let_match, out_name_raw, env,
                    cw_needed, exc, resVars, txtVars, comVars >>

\* line 644
Fallback ==
    \E name \in RawNames, rhs \in UnrecognizedRhs : unsupported(LhsRaw(name), rhs)

\* lines 646-652: py.insert(header_len, guard); py.insert(header_len + 1, "")
InjectCw(buf) ==
    SubSeq(buf, 1, header_len)
    \o << Stmt("cw_guard", NoneStr), Stmt("blank", NoneStr) >>
    \o SubSeq(buf, header_len + 1, Len(buf))

\* out_ref as it would be if the last produced identifier were forgotten
\* when the `in` name is not in env
OutRef_IgnoresLast(matched, e, raw, last, out_name) ==
    IF matched
    THEN EnvGet(e, raw, out_name)
    ELSE IF last # NoneStr THEN last ELSE out_name

\* lines 656-659: out_ref
OutRef(matched, e, raw, last, out_name) ==
    IF matched
    THEN EnvGet(e, raw, IF last # NoneStr THEN last ELSE out_name)
    ELSE IF last # NoneStr THEN last ELSE out_name

\* lines 646-661: the loop is over; inject the guard, add the final
\* binding, return "\n".join(py)
Finish ==
    /\ pc = "loop"
    /\ LET out_name == _normalize_var(query_name)
           out_ref == OutRef(let_match, env, out_name_raw, last_df, out_name)
           buf == IF cw_needed THEN InjectCw(py) ELSE py
       IN py' = Append(buf, Entry("alias", out_name, out_ref, <<>>))
    /\ pc' = "done"
    /\ UNCHANGED << m_code, query_name, let_match, out_name_raw, nread, steps,
                    env, last_df, cw_needed, exc, resVars, txtVars, comVars >>

\* the script shapes: `let ... in X`, `let ...` without an in clause, and a
\* bare list of bindings
ScriptShapes ==
    { [hasLet |-> TRUE, inName |-> x] : x \in RawNames \cup {NoneStr} }
    \cup { [hasLet |-> FALSE, inName |-> NoneStr] }

ResolverIdle ==
    /\ queries = <<>>
    /\ call = [op |-> "none", target |-> NoneStr]
    /\ ret = [err |-> "none", val |-> <<>>]

TextIdle ==
    /\ arg = <<>>
    /\ given = <<>>
    /\ fn = "none"
    /\ res = <<>>

\* the threads of the process that may call the extractor
Threads == {"t1", "t2"}
\* `names` when it is None, and `want` when it is None
NoNames == [some |-> FALSE, names |-> {}]
\* a thread that is not inside an extraction call
IdleFrame ==
    [pc |-> "idle", fn |-> "none", names |-> NoNames, want |-> NoNames,
     excel |-> "None", wb |-> "None", out |-> EmptyEnv, i |-> 0, exc |-> "none",
     got |-> [done |-> FALSE, name |-> NoneStr, rows |-> <<>>]]
\* no COM initialisation, no host process, no open document
NoProc == [com |-> 0, uninit |-> 0, host |-> "none", doc |-> "none"]

ExtractIdle ==
    /\ book = [t \in Threads |-> <<>>]
    /\ callers = {}
    /\ th = [t \in Threads |-> IdleFrame]
    /\ proc = [t \in Threads |-> NoProc]

InitConvert ==
    /\ m_code \in ScriptShapes
    /\ query_name \in QueryNames
    /\ pc = "start"
    /\ let_match = FALSE
    /\ out_name_raw = NoneStr
    /\ nread = 0
    /\ steps = <<>>
    /\ env = EmptyEnv
    /\ last_df = NoneStr
    /\ cw_needed = FALSE
    /\ py = <<>>
    /\ exc = "none"
    /\ ResolverIdle
    /\ TextIdle
    /\ ExtractIdle

NextConvert ==
    \/ Parse
    \/ SkipPiece
    \/ MatchCurrentWorkbook
    \/ MatchCsvDocument
    \/ MatchPromoteHeaders
    \/ MatchTransformColumnTypes
    \/ MatchAddColumn
    \/ MatchSelectRows
    \/ MatchSort
    \/ MatchGroup
    \/ MatchExpandRecordColumn
    \/ MatchExpandTableColumn
    \/ MatchJoin
    \/ MatchFromRecords
    \/ MatchHashTable
    \/ MatchFromRows
    \/ MatchReference
    \/ Fallback
    \/ Finish

SpecConvert == InitConvert /\ [][NextConvert]_vars


\* ------------------------------------------------------ query_resolver.py
UpperCase == <<"A","B","C","D","E","F","G","H","I","J","K","L","M","N","O","P",
               "Q","R","S","T","U","V","W","X","Y","Z">>
LowerCase == <<"a","b","c","d","e","f","g","h","i","j","k","l","m","n","o","p",
               "q","r","s","t","u","v","w","x","y","z">>
\* str.lower()
Lower(s) ==
    [i \in 1..Len(s) |->
        IF \E k \in 1..Len(UpperCase) : UpperCase[k] = s[i]
        THEN LowerCase[CHOOSE k \in 1..Len(UpperCase) : UpperCase[k] = s[i]]
        ELSE s[i]]

M_KEYWORDS ==
    { <<"l","e","t">>, <<"i","n">>, <<"e","a","c","h">>, <<"a","n","d">>,
      <<"o","r">>, <<"n","o","t">>, <<"t","r","u","e">>, <<"f","a","l","s","e">>,
      <<"n","u","l","l">>, <<"a","s">>, <<"i","f">>, <<"t","h","e","n">>,
      <<"e","l","s","e">>, <<"e","r","r","o","r">>, <<"t","r","y">>,
      <<"o","t","h","e","r","w","i","s","e">> }

\* query names, in name order
NamePool == << <<"A">>, <<"B">>, <<"C">>, <<"D">>, <<"E">> >>
Names == { NamePool[i] : i \in 1..MaxQueries }
\* a name no query of the mapping has
UnknownName == <<"Z">>

\* A script, as the reference scan sees it once comments are stripped: the
\* set of its tokens, each a quoted reference #"name" or a bare identifier.
Tok(form, name) == [form |-> form, name |-> name]

\* lines 63-80 (m2py_cli.py 35-40)
find_query_refs(m, known_names) ==
    { t.name : t \in { x \in m : x.form = "quoted" } }
    \cup { t.name : t \in { x \in m : /\ x.form = "bare"
                                      /\ x.name \in known_names
                                      /\ Lower(x.name) \notin M_KEYWORDS } }

\* queries.keys(), in insertion order, and as a set
Keys(qs) == [i \in 1..Len(qs) |-> qs[i].name]
Known(qs) == { qs[i].name : i \in 1..Len(qs) }
\* queries[n]
ScriptOf(qs, n) == qs[CHOOSE i \in 1..Len(qs) : qs[i].name = n].script

\* lines 92-95: graph; lines 133-137: rev (a defaultdict: no entry reads as
\* the empty set)
Graph(qs) ==
    [n \in Known(qs) |->
        { r \in find_query_refs(ScriptOf(qs, n), Known(qs)) : r \in Known(qs) /\ r # n }]

SeqHas(sq, x) == \E i \in 1..Len(sq) : sq[i] = x

\* the relaxation as it would be without the `indeg[v] == 0` test
RECURSIVE Relax_NoZeroTest(_, _, _, _, _, _, _)
Relax_NoZeroTest(u, i, keys, graph, indeg, q, order) ==
    IF i > Len(keys) THEN [indeg |-> indeg, q |-> q]
    ELSE LET v == keys[i]
         IN IF u \in graph[v]
            THEN LET d == [indeg EXCEPT ![v] = @ - 1]
                     q2 == IF ~SeqHas(order, v) /\ ~SeqHas(q, v)
                           THEN Append(q, v) ELSE q
                 IN Relax_NoZeroTest(u, i + 1, keys, graph, d, q2, order)
            ELSE Relax_NoZeroTest(u, i + 1, keys, graph, indeg, q, order)

\* lines 108-112: for v, deps in graph.items(): ...; i is the position of v
RECURSIVE Relax(_, _, _, _, _, _, _)
Relax(u, i, keys, graph, indeg, q, order) ==
    IF i > Len(keys) THEN [indeg |-> indeg, q |-> q]
    ELSE LET v == keys[i]
         IN IF u \in graph[v]
            THEN LET d == [indeg EXCEPT ![v] = @ - 1]
                     q2 == IF d[v] = 0 /\ ~SeqHas(order, v) /\ ~SeqHas(q, v)
                           THEN Append(q, v) ELSE q
                 IN Relax(u, i + 1, keys, graph, d, q2, order)
            ELSE Relax(u, i + 1, keys, graph, indeg, q, order)

\* lines 105-112: while q: u = q.popleft(); order.append(u); ...
RECURSIVE KahnLoop(_, _, _, _, _)
KahnLoop(keys, graph, indeg, q, order) ==
    IF q = <<>> THEN order
    ELSE LET u == Head(q)
             order2 == Append(order, u)
             r == Relax(u, 1, keys, graph, indeg, Tail(q), order2)
         IN KahnLoop(keys, graph, r.indeg, r.q, order2)

\* [x for x in sq if P(x)]
RECURSIVE Filter(_, _)
Filter(sq, keep) ==
    IF sq = <<>> THEN <<>>
    ELSE IF Head(sq) \in keep THEN << Head(sq) >> \o Filter(Tail(sq), keep)
         ELSE Filter(Tail(sq), keep)

\* the sweep's leftovers dropped instead of appended
Remaining_Dropped(keys, order) == <<>>

\* the sweep's leftovers appended in name order
Remaining_NameOrder(keys, order) ==
    Filter(SubSeq(NamePool, 1, MaxQueries),
           { keys[i] : i \in 1..Len(keys) } \ { order[i] : i \in 1..Len(order) })

\* lines 114-115: remaining = [n for n in queries if n not in order]
Remaining(keys, order) ==
    Filter(keys, { keys[i] : i \in 1..Len(keys) } \ { order[i] : i \in 1..Len(order) })

\* lines 83-116 (m2py_cli.py 42-61)
topo_order_queries(qs) ==
    LET keys == Keys(qs)
        graph == Graph(qs)
        indeg == [n \in Known(qs) |-> Cardinality(graph[n])]
        q == Filter(keys, { n \in Known(qs) : indeg[n] = 0 })
        order == KahnLoop(keys, graph, indeg, q, <<>>)
    IN order \o Remaining(keys, order)

\* a set as a list, in some order (the iteration order of a Python set)
RECURSIVE SetToSeq(_)
SetToSeq(S) ==
    IF S = {} THEN <<>>
    ELSE LET x == CHOOSE y \in S : TRUE IN << x >> \o SetToSeq(S \ {x})

\* the traversal as it would be if it stopped at the direct dependencies
Dfs_DirectOnly(stack, seen, rev) ==
    { stack[i] : i \in 1..Len(stack) }
    \cup UNION { IF stack[i] \in DOMAIN rev THEN rev[stack[i]] ELSE {} : i \in 1..Len(stack) }

\* lines 140-147: the DFS from the target; rev[cur] of a defaultdict
RECURSIVE Dfs(_, _, _)
Dfs(stack, seen, rev) ==
    IF stack = <<>> THEN seen
    ELSE LET cur == stack[Len(stack)]
             rest == SubSeq(stack, 1, Len(stack) - 1)
         IN IF cur \in seen THEN Dfs(rest, seen, rev)
            ELSE Dfs(rest \o SetToSeq(IF cur \in DOMAIN rev THEN rev[cur] ELSE {}),
                     seen \cup {cur}, rev)

Result(err, val) == [err |-> err, val |-> val]

\* m2py_cli.py lines 63-76: no guard on the target
cli_dependency_chain_for(target, qs) ==
    LET order == topo_order_queries(qs)
        seen == Dfs(<< target >>, {}, Graph(qs))
    IN Result("none", Filter(order, seen))

\* the chain as it would be built by listing the dependencies and then
\* appending the target, without the guard
dependency_chain_for_TargetAppended(target, qs) ==
    LET order == topo_order_queries(qs)
        seen == Dfs(<< target >>, {}, Graph(qs))
    IN Result("none", Append(Filter(order, seen \ {target}), target))

\* query_resolver.py lines 119-151
dependency_chain_for(target, qs) ==
    IF target \notin Known(qs) THEN Result("none", <<>>)
    ELSE LET order == topo_order_queries(qs)
             seen == Dfs(<< target >>, {}, Graph(qs))
         IN Result("none", Filter(order, seen))

\* ---- the mappings
\* insertion orders: the rotations of the names
Orders ==
    { [i \in 1..MaxQueries |-> NamePool[((i + k - 1) % MaxQueries) + 1]] :
        k \in 0..(MaxQueries - 1) }
\* which other queries each script references
DepMaps == { d \in [Names -> SUBSET Names] : \A n \in Names : n \notin d[n] }
\* how the references are written: as bare identifiers, as quoted
\* references, or quoted and with a self reference, a dangling reference and
\* a keyword in every script
Writings == {"bare", "quoted", "noisy"}

Script(n, deps, writing) ==
    { Tok(IF writing = "bare" THEN "bare" ELSE "quoted", d) : d \in deps }
    \cup IF writing = "noisy"
         THEN { Tok("bare", n), Tok("quoted", UnknownName), Tok("bare", <<"e","a","c","h">>) }
         ELSE {}

Mapping(order, d, writing) ==
    [i \in 1..MaxQueries |->
        [name |-> order[i], script |-> Script(order[i], d[order[i]], writing)]]

ConvertIdle ==
    /\ m_code = [hasLet |-> FALSE, inName |-> NoneStr]
    /\ query_name = NoneStr
    /\ pc = "idle"
    /\ let_match = FALSE
    /\ out_name_raw = NoneStr
    /\ nread = 0
    /\ steps = <<>>
    /\ env = EmptyEnv
    /\ last_df = NoneStr
    /\ cw_needed = FALSE
    /\ py = <<>>
    /\ exc = "none"

InitResolver ==
    /\ queries \in { Mapping(o, d, w) : o \in Orders, d \in DepMaps, w \in Writings }
    /\ call = [op |-> "none", target |-> NoneStr]
    /\ ret = Result("none", <<>>)
    /\ ConvertIdle
    /\ TextIdle
    /\ ExtractIdle

CallTopo ==
    /\ call.op = "none"
    /\ call' = [op |-> "topo_order_queries", target |-> NoneStr]
    /\ ret' = Result("none", topo_order_queries(queries))
    /\ UNCHANGED << queries, convVars, txtVars, comVars >>

CallChain ==
    \E target \in Names \cup {UnknownName} :
        /\ call.op = "none"
        /\ call' = [op |-> "dependency_chain_for", target |-> target]
        /\ ret' = dependency_chain_for(target, queries)
        /\ UNCHANGED << queries, convVars, txtVars, comVars >>

CallChainCli ==
    \E target \in Names \cup {UnknownName} :
        /\ call.op = "none"
        /\ call' = [op |-> "cli_dependency_chain_for", target |-> target]
        /\ ret' = cli_dependency_chain_for(target, queries)
        /\ UNCHANGED << queries, convVars, txtVars, comVars >>

NextResolver == CallTopo \/ CallChain \/ CallChainCli

SpecResolver == InitResolver /\ [][NextResolver]_vars


\* ====================================================== reference scanning
\* query_resolver.py, character by character

\* "".join(pieces)
RECURSIVE Concat(_)
Concat(pieces) ==
    IF pieces = <<>> THEN <<>> ELSE Head(pieces) \o Concat(Tail(pieces))

\* str.splitlines(), for the line break "\n"
splitlines(s) ==
    IF s = <<>> THEN <<>>
    ELSE IF s[Len(s)] = "\n" THEN SplitLines(SubSeq(s, 1, Len(s) - 1))
    ELSE SplitLines(s)

\* "\n".join(lines)
RECURSIVE JoinLines(_)
JoinLines(ls) ==
    IF ls = <<>> THEN <<>>
    ELSE IF Len(ls) = 1 THEN ls[1]
    ELSE ls[1] \o <<"\n">> \o JoinLines(Tail(ls))

\* lines 42-58: the scan of one line; quotes are the characters that open
\* and close a string
RECURSIVE StripScan(_, _, _, _, _, _)
StripScan(s, i, in_str, quote, out, quotes) ==
    IF i > Len(s) THEN out
    ELSE LET ch == s[i]
         IN IF ~in_str /\ ch \in quotes
            THEN StripScan(s, i + 1, TRUE, ch, Append(out, ch), quotes)
            ELSE IF in_str
            THEN IF ch = quote
                 THEN StripScan(s, i + 1, FALSE, "", Append(out, ch), quotes)
                 ELSE StripScan(s, i + 1, TRUE, quote, Append(out, ch), quotes)
            ELSE IF ch = "/" /\ i + 1 <= Len(s) /\ s[i + 1] = "/"
            THEN out
            ELSE StripScan(s, i + 1, FALSE, "", Append(out, ch), quotes)

\* lines 38-60, for a given set of string quotes
StripWith(m, quotes) ==
    LET ls == splitlines(m)
    IN JoinLines([k \in 1..Len(ls) |->
                      StripScan(ls[k], 1, FALSE, "", <<>>, quotes)])

\* line 45: `ch in ('"', "'")`
StringQuotes == {"\"", "'"}

_strip_line_comments(m) == StripWith(m, StringQuotes)

\* REF_QUOTED.findall(src): #"([^"]+)", leftmost matches, not overlapping
RECURSIVE QuotedFrom(_, _)
QuotedFrom(s, i) ==
    IF i + 1 > Len(s) THEN {}
    ELSE IF s[i] = "#" /\ s[i + 1] = "\"" /\ \E k \in (i + 3)..Len(s) :
                /\ s[k] = "\""
                /\ \A j \in (i + 2)..(k - 1) : s[j] # "\""
         THEN LET k == CHOOSE k \in (i + 3)..Len(s) :
                           /\ s[k] = "\""
                           /\ \A j \in (i + 2)..(k - 1) : s[j] # "\""
              IN { SubSeq(s, i + 2, k - 1) } \cup QuotedFrom(s, k + 1)
         ELSE QuotedFrom(s, i + 1)

\* IDENT.findall(src): \b([A-Za-z_][A-Za-z0-9_]*)\b, the maximal runs of
\* word characters that do not begin with a digit
Idents(s) ==
    { SubSeq(s, ij[1], ij[2]) : ij \in
        { x \in (1..Len(s)) \X (1..Len(s)) :
            /\ x[1] <= x[2]
            /\ \A k \in x[1]..x[2] : s[k] \in WordChars
            /\ s[x[1]] \notin Digits
            /\ (x[1] = 1 \/ s[x[1] - 1] \notin WordChars)
            /\ (x[2] = Len(s) \/ s[x[2] + 1] \notin WordChars) } }

\* the tokens the two regular expressions find in a text
Tokens(src) ==
    { Tok("quoted", n) : n \in QuotedFrom(src, 1) }
    \cup { Tok("bare", n) : n \in Idents(src) }

\* lines 63-80, from the text of the script
find_query_refs_in(m, known_names) ==
    find_query_refs(Tokens(_strip_line_comments(m)), known_names)

\* ---- the scripts scanned
\* pieces a script is written from
MaxPieces == 4
ScanPieces ==
    { <<"B">>, <<"x">>, <<"/", "/">>, <<"'">>, <<"\"">>,
      <<"#", "\"", "B", "\"">>, <<"\n">> }
ScanTexts == { Concat(p) : p \in SeqsUpTo(ScanPieces, MaxPieces) }
\* the names of the other queries
ScanKnown == { <<"B">> }

ConvertIdleAll == ConvertIdle /\ ResolverIdle

InitScan ==
    /\ arg \in ScanTexts
    /\ given = <<>>
    /\ fn = "none"
    /\ res = <<>>
    /\ ConvertIdleAll
    /\ ExtractIdle

Strip ==
    /\ fn = "none"
    /\ fn' = "_strip_line_comments"
    /\ res' = _strip_line_comments(arg)
    /\ UNCHANGED << arg, given, convVars, resVars, comVars >>

Scan ==
    /\ fn = "none"
    /\ fn' = "find_query_refs"
    /\ res' = find_query_refs_in(arg, ScanKnown)
    /\ UNCHANGED << arg, given, convVars, resVars, comVars >>

NextScan == Strip \/ Scan

SpecScan == InitScan /\ [][NextScan]_vars

\* ================================================== identifier normalizer
\* m2py_core.py lines 13-25, applied to arbitrary binding names

\* characters of a binding name
MaxLen == 4
NormChars == {"a", "1", "_", " ", "#", "\"", "'", "-"}
NormTexts == SeqsUpTo(NormChars, MaxLen)

InitNormalize ==
    /\ arg \in NormTexts
    /\ given = <<>>
    /\ fn = "none"
    /\ res = <<>>
    /\ ConvertIdleAll
    /\ ExtractIdle

\* lhs = _normalize_var(lhs_raw)
Normalize ==
    /\ fn = "none"
    /\ fn' = "_normalize_var"
    /\ res' = _normalize_var(arg)
    /\ given' = <<>>
    /\ UNCHANGED << arg, convVars, resVars, comVars >>

\* _normalize_var applied to a name that went through it once already;
\* given keeps the first result
Renormalize ==
    /\ fn = "_normalize_var"
    /\ fn' = "_normalize_var twice"
    /\ given' = res
    /\ res' = _normalize_var(res)
    /\ UNCHANGED << arg, convVars, resVars, comVars >>

NextNormalize == Normalize \/ Renormalize

SpecNormalize == InitNormalize /\ [][NextNormalize]_vars

\* ============================================================ step splitter
\* m2py_core.py lines 28-78

\* str.rstrip(chars)
RStripChars(s, cs) ==
    IF \A i \in 1..Len(s) : s[i] \in cs THEN <<>>
    ELSE LET hi == CHOOSE i \in 1..Len(s) :
                      s[i] \notin cs /\ \A j \in (i+1)..Len(s) : s[j] \in cs
         IN SubSeq(s, 1, hi)

\* lines 33-38: the scanner's state before the first character
SplitStart ==
    [parts |-> <<>>, buf |-> <<>>, depth_par |-> 0, depth_br |-> 0,
     depth_curly |-> 0, in_str |-> FALSE, str_delim |-> "", esc |-> FALSE]

\* lines 41-72: one character.  str_delim is only ever set to one quote
\* character, so the branch for triple quotes (line 49) is never taken.
SplitChar(st, ch) ==
    LET b == [st EXCEPT !.buf = Append(@, ch)]
    IN IF st.in_str
       THEN IF st.esc THEN [b EXCEPT !.esc = FALSE]
            ELSE IF ch = "\\" THEN [b EXCEPT !.esc = TRUE]
            ELSE IF ch = st.str_delim THEN [b EXCEPT !.in_str = FALSE]
            ELSE b
       ELSE IF ch = "\"" THEN [b EXCEPT !.in_str = TRUE, !.str_delim = "\""]
            ELSE IF ch = "'" THEN [b EXCEPT !.in_str = TRUE, !.str_delim = "'"]
            ELSE IF ch = "(" THEN [b EXCEPT !.depth_par = @ + 1]
            ELSE IF ch = ")" THEN [b EXCEPT !.depth_par = @ - 1]
            ELSE IF ch = "[" THEN [b EXCEPT !.depth_br = @ + 1]
            ELSE IF ch = "]" THEN [b EXCEPT !.depth_br = @ - 1]
            ELSE IF ch = "{" THEN [b EXCEPT !.depth_curly = @ + 1]
            ELSE IF ch = "}" THEN [b EXCEPT !.depth_curly = @ - 1]
            ELSE IF /\ ch = ","
                    /\ st.depth_par = 0 /\ st.depth_br = 0 /\ st.depth_curly = 0
                 THEN [b EXCEPT !.parts = Append(@, StripChars(st.buf, Whitespace)),
                                !.buf = <<>>]
            ELSE b

\* line 40: for ch in body
RECURSIVE SplitScan(_, _, _)
SplitScan(body, i, st) ==
    IF i > Len(body) THEN st
    ELSE SplitScan(body, i + 1, SplitChar(st, body[i]))

\* [p for p in sq if p]
RECURSIVE NonEmpty(_)
NonEmpty(sq) ==
    IF sq = <<>> THEN <<>>
    ELSE IF Head(sq) = <<>> THEN NonEmpty(Tail(sq))
    ELSE << Head(sq) >> \o NonEmpty(Tail(sq))

\* lines 28-78
_split_let_body(body) ==
    LET st == SplitScan(body, 1, SplitStart)
        tail == StripChars(st.buf, Whitespace)
        parts == IF tail # <<>> THEN Append(st.parts, tail) ELSE st.parts
    IN NonEmpty([k \in 1..Len(parts) |->
                    RStripChars(StripChars(parts[k], Whitespace), {","})])

\* ---- the let bodies split
\* what an expression is written from: a plain token, the three bracket
\* groups and the two kinds of quoted string, each holding a comma, a
\* string holding a bracket, a string holding `\\`, and a string that ends
\* with a backslash
MaxStepPieces == 2
SplitPieces ==
    { <<"x">>,
      <<"(", "a", ",", "b", ")">>,
      <<"[", "a", ",", "b", "]">>,
      <<"{", "a", ",", "b", "}">>,
      <<"\"", "a", ",", "b", "\"">>,
      <<"'", "a", ",", "b", "'">>,
      <<"\"", "(", "\"">>,
      <<"\"", "\\", "\\", "\"">>,
      <<"\"", "c", "\\", "\"">> }
SplitSteps == { Concat(p) : p \in SeqsUpTo(SplitPieces, MaxStepPieces) } \ { <<>> }
\* the steps written one after the other, with `, ` between them
RECURSIVE JoinSteps(_)
JoinSteps(ss) ==
    IF ss = <<>> THEN <<>>
    ELSE IF Len(ss) = 1 THEN ss[1]
    ELSE ss[1] \o <<",", " ">> \o JoinSteps(Tail(ss))

InitSplit ==
    /\ given \in SeqsUpTo(SplitSteps, MaxSteps) \ { <<>> }
    /\ arg = JoinSteps(given)
    /\ fn = "none"
    /\ res = <<>>
    /\ ConvertIdleAll
    /\ ExtractIdle

\* steps = _split_let_body(let_body)
Split ==
    /\ fn = "none"
    /\ fn' = "_split_let_body"
    /\ res' = _split_let_body(arg)
    /\ UNCHANGED << arg, given, convVars, resVars, comVars >>

NextSplit == Split

SpecSplit == InitSplit /\ [][NextSplit]_vars

\* ============================================================ COM extractor
\* excel_com_extractor.py

\* items of one workbook
MaxItems == 2
\* names as the workbook and the caller write them: plain, padded, empty
NameT == <<"T">>
NameU == <<"U">>
NameV == <<"V">>
PaddedU == <<" ", "U">>
ItemNames == { NameT, PaddedU, NoneStr }
\* the `names` argument: None, an empty list, and lists of names
Requests ==
    { NoNames }
    \cup { [some |-> TRUE, names |-> ns] :
             ns \in { {}, {NameT}, {PaddedU}, {NameT, NameV} } }

\* an item of a COM collection: how reading it ends, and its content
Item(kind, name, read, rows) ==
    [kind |-> kind, name |-> name, read |-> read, rows |-> rows]
\* the content of the k-th item read
RowsOf(k) == << k >>

\* line 156: want = set(n.strip() for n in names) if names else None
Want(names) ==
    IF names.some /\ names.names # {}
    THEN [some |-> TRUE, names |-> { StripChars(n, Whitespace) : n \in names.names }]
    ELSE NoNames
\* `if want and nm not in want`
NotWanted(want, nm) == want.some /\ want.names # {} /\ nm \notin want.names

DigitChars == <<"1", "2", "3", "4", "5", "6", "7", "8", "9">>
\* f"Query_{i}", f"Connection_{i}"
Query_(i) == <<"Q","u","e","r","y","_">> \o << DigitChars[i] >>
Connection_(i) ==
    <<"C","o","n","n","e","c","t","i","o","n","_">> \o << DigitChars[i] >>

\* with two calls in flight each reads one item, a single call MaxItems
ItemLimit == IF callers = Threads THEN 1 ELSE MaxItems
MayRead(t) == Len(book[t]) < ItemLimit

Frame(t, f) == [th EXCEPT ![t] = f]

\* lines 67-75 and 149-157: the call up to the try block.  Without pywin32
\* the call raises before anything is initialised.
Call(t) ==
    /\ t \in callers
    /\ th[t].pc = "idle"
    /\ \E f \in {"queries", "tables"}, nm \in Requests, pywin32 \in BOOLEAN :
        /\ f = "queries" => nm = NoNames
        /\ IF pywin32
           THEN /\ proc' = [proc EXCEPT ![t].com = @ + 1]
                /\ th' = Frame(t, [IdleFrame EXCEPT !.pc = "open", !.fn = f,
                                       !.names = nm, !.want = Want(nm)])
           ELSE /\ th' = Frame(t, [IdleFrame EXCEPT !.pc = "raised", !.fn = f,
                                       !.names = nm, !.exc = "RuntimeError"])
                /\ UNCHANGED proc
    /\ UNCHANGED << book, callers, convVars, resVars, txtVars >>

\* lines 28-44 and the assignment `excel, wb = _open_workbook(path)`: the
\* helper raises before the host is started (no file, no Windows, no
\* DispatchEx), or after it (setting a property or Workbooks.Open fails:
\* nothing is returned, so excel and wb stay None), or returns both handles
_open_workbook(t) ==
    /\ th[t].pc = "open"
    /\ \E outcome \in {"before_host", "after_host", "ok"} :
        \/ /\ outcome = "before_host"
           /\ th' = Frame(t, [th[t] EXCEPT !.pc = "finally", !.exc = "FileNotFoundError"])
           /\ UNCHANGED proc
        \/ /\ outcome = "after_host"
           /\ proc' = [proc EXCEPT ![t].host = "running"]
           /\ th' = Frame(t, [th[t] EXCEPT !.pc = "finally", !.exc = "com_error"])
        \/ /\ outcome = "ok"
           /\ proc' = [proc EXCEPT ![t].host = "running", ![t].doc = "open"]
           /\ th' = Frame(t, [th[t] EXCEPT
                        !.pc = IF th[t].fn = "queries" THEN "queries" ELSE "worksheets",
                        !.excel = "app", !.wb = "wb"])
    /\ UNCHANGED << book, callers, convVars, resVars, txtVars >>

\* lines 116-132 and 243-258: the finally block.  The three calls are made
\* in turn, each only for a handle the frame holds.
Release(t) ==
    /\ th[t].pc = "finally"
    /\ proc' = [proc EXCEPT
           ![t].doc = IF th[t].wb # "None" THEN "closed" ELSE @,
           ![t].host = IF th[t].excel # "None" THEN "quit" ELSE @,
           ![t].com = @ - 1,
           ![t].uninit = @ + 1]
    /\ th' = Frame(t, [th[t] EXCEPT
                 !.pc = IF th[t].exc = "none" THEN "returned" ELSE "raised"])
    /\ UNCHANGED << book, callers, convVars, resVars, txtVars >>

\* the frame after one more item of the current collection was read
Logged(t, item) == [book EXCEPT ![t] = Append(@, item)]
\* str(getattr(x, "Name", "") or "").strip()
NameOf(raw) == StripChars(raw, Whitespace)

\* lines 80-87: wb.Queries and its Count; without queries, or when the
\* property raises com_error, the connections are listed instead
Queries(t) ==
    /\ th[t].pc = "queries"
    /\ \E outcome \in {"some", "none", "com_error"} :
        th' = Frame(t, [th[t] EXCEPT
                  !.pc = IF outcome = "some" /\ MayRead(t)
                         THEN "query_items" ELSE "conn_items",
                  !.i = 0])
    /\ UNCHANGED << book, callers, proc, convVars, resVars, txtVars >>

\* the extraction as it would be if a failing query ended the loop
QueryItem_Aborting(t) ==
    /\ th[t].pc = "query_items"
    /\ MayRead(t)
    /\ \E raw \in ItemNames, read \in {"ok", "com_error"} :
        LET i == th[t].i + 1
            rows == RowsOf(Len(book[t]) + 1)
            name == IF NameOf(raw) = NoneStr THEN Query_(i) ELSE NameOf(raw)
        IN /\ book' = Logged(t, Item("query", raw, read, rows))
           /\ th' = Frame(t, IF read = "ok"
                             THEN [th[t] EXCEPT !.i = i, !.out = EnvSet(@, name, rows)]
                             ELSE [th[t] EXCEPT !.pc = "finally", !.exc = "com_error"])
    /\ UNCHANGED << callers, proc, convVars, resVars, txtVars >>

\* lines 88-98: one turn of the loop over the queries
QueryItem(t) ==
    /\ th[t].pc = "query_items"
    /\ MayRead(t)
    /\ \E raw \in ItemNames, read \in {"ok", "com_error"} :
        LET i == th[t].i + 1
            rows == RowsOf(Len(book[t]) + 1)
            name == IF NameOf(raw) = NoneStr THEN Query_(i) ELSE NameOf(raw)
        IN /\ book' = Logged(t, Item("query", raw, read, rows))
           /\ th' = Frame(t, [th[t] EXCEPT
                        !.i = i,
                        !.out = IF read = "ok" THEN EnvSet(@, name, rows) ELSE @])
    /\ UNCHANGED << callers, proc, convVars, resVars, txtVars >>

\* line 114, after the last query
QueriesDone(t) ==
    /\ th[t].pc = "query_items"
    /\ th[t].i >= 1
    /\ th' = Frame(t, [th[t] EXCEPT !.pc = "finally"])
    /\ UNCHANGED << book, callers, proc, convVars, resVars, txtVars >>

\* lines 104-110: one turn of the loop over the connections
ConnItem(t) ==
    /\ th[t].pc = "conn_items"
    /\ MayRead(t)
    /\ \E raw \in ItemNames, read \in {"ok", "com_error"} :
        LET i == th[t].i + 1
            name == IF NameOf(raw) = NoneStr THEN Connection_(i) ELSE NameOf(raw)
        IN /\ book' = Logged(t, Item("connection", raw, read, <<>>))
           /\ th' = Frame(t, [th[t] EXCEPT
                        !.i = i,
                        !.out = IF read = "ok" THEN EnvSet(@, name, <<>>) ELSE @])
    /\ UNCHANGED << callers, proc, convVars, resVars, txtVars >>

\* lines 101-114: no (more) connections, or wb.Connections raised com_error
ConnsDone(t) ==
    /\ th[t].pc = "conn_items"
    /\ th' = Frame(t, [th[t] EXCEPT !.pc = "finally"])
    /\ UNCHANGED << book, callers, proc, convVars, resVars, txtVars >>

\* line 163: `for ws in wb.Worksheets`, outside every try of the loop body:
\* a com_error of the enumeration leaves the function
Worksheets(t) ==
    /\ th[t].pc = "worksheets"
    /\ \E outcome \in {"ok", "com_error"} :
        th' = Frame(t, IF outcome = "ok"
                       THEN [th[t] EXCEPT !.pc = "table_items", !.i = 0]
                       ELSE [th[t] EXCEPT !.pc = "finally", !.exc = "com_error"])
    /\ UNCHANGED << book, callers, proc, convVars, resVars, txtVars >>

\* lines 170-193: one turn of the loop over the structured tables
TableItem(t) ==
    /\ th[t].pc = "table_items"
    /\ MayRead(t)
    /\ \E raw \in ItemNames, read \in {"ok", "com_error"} :
        LET nm == NameOf(raw)
            rows == RowsOf(Len(book[t]) + 1)
            kept == read = "ok" /\ nm # NoneStr /\ ~NotWanted(th[t].want, nm)
        IN /\ book' = Logged(t, Item("table", raw, read, rows))
           /\ th' = Frame(t, [th[t] EXCEPT
                        !.i = @ + 1,
                        !.out = IF kept THEN EnvSet(@, nm, rows) ELSE @])
    /\ UNCHANGED << callers, proc, convVars, resVars, txtVars >>

\* lines 164-168 and 195-201: no (more) tables; wb.Names and its Count
TablesDone(t) ==
    /\ th[t].pc = "table_items"
    /\ th' = Frame(t, [th[t] EXCEPT !.pc = "name_items", !.i = 0])
    /\ UNCHANGED << book, callers, proc, convVars, resVars, txtVars >>

\* lines 203-234: one turn of the loop over the named ranges.  A name that
\* refers to no simple range is passed over; a range without values gives
\* an empty row list.
NameItem(t) ==
    /\ th[t].pc = "name_items"
    /\ MayRead(t)
    /\ \E raw \in ItemNames, read \in {"ok", "com_error", "no_range", "no_values"} :
        LET nm == NameOf(raw)
            rows == IF read = "no_values" THEN <<>> ELSE RowsOf(Len(book[t]) + 1)
            kept == /\ read \in {"ok", "no_values"}
                    /\ nm # NoneStr
                    /\ ~NotWanted(th[t].want, nm)
        IN /\ book' = Logged(t, Item("range", raw, read, rows))
           /\ th' = Frame(t, [th[t] EXCEPT
                        !.i = @ + 1,
                        !.out = IF kept THEN EnvSet(@, nm, rows) ELSE @])
    /\ UNCHANGED << callers, proc, convVars, resVars, txtVars >>

\* out.setdefault(nm, []) for every nm of S
SetDefaults(out, S) ==
    [x \in DOMAIN out \cup S |-> IF x \in DOMAIN out THEN out[x] ELSE <<>>]

\* the end of the tables extraction without the entries for missing names
NamesDone_NoDefaults(t) ==
    /\ th[t].pc = "name_items"
    /\ th' = Frame(t, [th[t] EXCEPT !.pc = "finally"])
    /\ UNCHANGED << book, callers, proc, convVars, resVars, txtVars >>

\* lines 236-241: no (more) named ranges; every requested name gets an entry
NamesDone(t) ==
    /\ th[t].pc = "name_items"
    /\ th' = Frame(t, [th[t] EXCEPT
                 !.pc = "finally",
                 !.out = IF th[t].want.some /\ th[t].want.names # {}
                         THEN SetDefaults(@, th[t].want.names) ELSE @])
    /\ UNCHANGED << book, callers, proc, convVars, resVars, txtVars >>

\* the names a workbook-table step may carry
LookupNames == { NameT, NameU, PaddedU, NameV }

\* m2py_core.py line 135, the emitted `__cw.get('<nm>', pd.DataFrame())`,
\* run against the registry filled from the returned tables
\* (m2py_streamlit_app.py lines 257-260)
Lookup(t) ==
    /\ th[t].pc = "returned"
    /\ th[t].fn = "tables"
    /\ ~th[t].got.done
    /\ \E nm \in LookupNames :
        th' = Frame(t, [th[t] EXCEPT
                  !.got = [done |-> TRUE, name |-> nm,
                           rows |-> EnvGet(th[t].out, nm, <<>>)]])
    /\ UNCHANGED << book, callers, proc, convVars, resVars, txtVars >>

\* one extraction call
InitExtract ==
    /\ book = [t \in Threads |-> <<>>]
    /\ callers = {"t1"}
    /\ th = [t \in Threads |-> IdleFrame]
    /\ proc = [t \in Threads |-> NoProc]
    /\ ConvertIdleAll
    /\ TextIdle

\* two extraction calls of two threads of one process
InitConcurrent ==
    /\ book = [t \in Threads |-> <<>>]
    /\ callers = Threads
    /\ th = [t \in Threads |-> IdleFrame]
    /\ proc = [t \in Threads |-> NoProc]
    /\ ConvertIdleAll
    /\ TextIdle

NextExtract ==
    \/ \E t \in Threads : Call(t)
    \/ \E t \in Threads : _open_workbook(t)
    \/ \E t \in Threads : Queries(t)
    \/ \E t \in Threads : QueryItem(t)
    \/ \E t \in Threads : QueriesDone(t)
    \/ \E t \in Threads : ConnItem(t)
    \/ \E t \in Threads : ConnsDone(t)
    \/ \E t \in Threads : Worksheets(t)
    \/ \E t \in Threads : TableItem(t)
    \/ \E t \in Threads : TablesDone(t)
    \/ \E t \in Threads : NameItem(t)
    \/ \E t \in Threads : NamesDone(t)
    \/ \E t \in Threads : Release(t)
    \/ \E t \in Threads : Lookup(t)

SpecExtract == InitExtract /\ [][NextExtract]_vars

SpecConcurrent == InitConcurrent /\ [][NextExtract]_vars

\* ------------------------------------- one step through the matcher chain
\* The right-hand side of a step is modelled as the sequence of its tokens,
\* each token the sequence of its characters: a name (Table.Join, Source,
\* each, 65001), a string literal with its quotes, a quoted identifier
\* #"...", or one punctuation mark or operator.  A right-hand side is
\* written without white space next to brackets and with one blank between
\* two names, so a `\s*` of a pattern lies between two tokens and a
\* character class such as [^,]+ takes whole tokens.
LPar == <<"(">>
RPar == <<")">>
LBrace == <<"{">>
RBrace == <<"}">>
LBrack == <<"[">>
RBrack == <<"]">>
Comma == <<",">>
EqSign == <<"=">>
Quote == "\""

AllOf(t, cs) == \A i \in 1..Len(t) : t[i] \in cs
NoneOf(t, cs) == \A i \in 1..Len(t) : t[i] \notin cs

\* "([^"]+)": a string literal whose text is not empty and holds no quote
IsStr(t) ==
    /\ Len(t) >= 3
    /\ t[1] = Quote /\ t[Len(t)] = Quote
    /\ \A i \in 2..(Len(t) - 1) : t[i] # Quote
\* the text between the quotes
Unquote(t) == SubSeq(t, 2, Len(t) - 1)
\* #"[^"]+"
IsQuotedIdent(t) == Len(t) >= 4 /\ t[1] = "#" /\ IsStr(Tail(t))
\* [A-Za-z_][A-Za-z0-9_\.]*
IsIdent(t) ==
    /\ t # <<>>
    /\ t[1] \in Letters \cup {"_"}
    /\ AllOf(t, WordChars \cup {"."})

\* the character classes of the patterns, by the name used in them
InClass(t, cls) ==
    CASE cls = "." -> TRUE
      [] cls = "[^,]" -> NoneOf(t, {","})
      [] cls = "[^),]" -> NoneOf(t, {")", ","})
      [] cls = "[^)]" -> NoneOf(t, {")"})
      [] cls = "[^}]" -> NoneOf(t, {"}"})
      [] cls = "[^]]" -> NoneOf(t, {"]"})
      [] cls = "str" -> IsStr(t)
      [] cls = "[A-Za-z0-9_.]" -> t # <<>> /\ AllOf(t, WordChars \cup {"."})
      [] cls = "ident" -> IsIdent(t)
      [] cls = "qident" -> IsQuotedIdent(t)
      [] cls = "\\d" -> t # <<>> /\ AllOf(t, Digits)
      [] cls = "[A-Za-z]" -> t # <<>> /\ AllOf(t, Letters)

\* pattern items.  Lit: this token; Fn: a token that ends with this text
\* (re.search may start inside a longer name); Pre: a token that starts
\* with this text and goes on with characters of a class; One / Many: one
\* token, or min and more tokens, of a class, greedy or lazy; Opt: (?:...)?;
\* Alt: (?:a|b); GOpen / GClose: the parentheses of group g; AtEnd: $
Lit(s) == [t |-> "lit", s |-> s]
Fn(s) == [t |-> "fn", s |-> s]
Pre(s, cls) == [t |-> "pre", s |-> s, cls |-> cls]
One(cls) == [t |-> "one", cls |-> cls]
Many(cls, min, greedy) == [t |-> "many", cls |-> cls, min |-> min, greedy |-> greedy]
Opt(sub) == [t |-> "opt", sub |-> sub]
Alt(a, b) == [t |-> "alt", a |-> a, b |-> b]
GOpen(g) == [t |-> "open", g |-> g]
GClose(g) == [t |-> "close", g |-> g]
G(g, sub) == << GOpen(g) >> \o sub \o << GClose(g) >>
AtEnd == [t |-> "end"]

\* the groups of a match: m.group(g) as a token sequence; a group that took
\* no part reads as the empty sequence (`m.group(2) or ""`)
Groups == 1..7
NoGroups == [at |-> [g \in Groups |-> 0], caps |-> [g \in Groups |-> <<>>]]
NoMatch == [ok |-> FALSE, end |-> 0, caps |-> NoGroups.caps]

SetMax(S) == CHOOSE x \in S : \A y \in S : y <= x
SetMin(S) == CHOOSE x \in S : \A y \in S : x <= y

\* the first of two attempts that matches
OrElse(first, second) == IF first.ok THEN first ELSE second

\* the longest run of tokens of class cls from position i
Most(toks, i, cls) ==
    SetMax({ n \in 0..(Len(toks) - i + 1) :
                \A k \in 0..(n - 1) : InClass(toks[i + k], cls) })

\* the backtracking match of pattern p on toks from position i: re tries a
\* greedy repetition longest first and a lazy one shortest first, an
\* optional part before its absence and the left alternative before the
\* right one
RECURSIVE Run(_, _, _, _)
RECURSIVE RunAfter(_, _, _, _, _, _)
Run(p, toks, i, c) ==
    IF Len(p) = 0 THEN [ok |-> TRUE, end |-> i, caps |-> c.caps]
    ELSE
    LET h == p[1]
        r == Tail(p)
        here == i <= Len(toks)
    IN CASE h.t = "lit" ->
              IF here /\ toks[i] = h.s THEN Run(r, toks, i + 1, c) ELSE NoMatch
         [] h.t = "fn" ->
              IF here /\ EndsWith(toks[i], h.s) THEN Run(r, toks, i + 1, c) ELSE NoMatch
         [] h.t = "pre" ->
              IF /\ here
                 /\ StartsWith(toks[i], h.s)
                 /\ Len(toks[i]) > Len(h.s)
                 /\ InClass(SubSeq(toks[i], Len(h.s) + 1, Len(toks[i])), h.cls)
              THEN Run(r, toks, i + 1, c) ELSE NoMatch
         [] h.t = "one" ->
              IF here /\ InClass(toks[i], h.cls) THEN Run(r, toks, i + 1, c) ELSE NoMatch
         [] h.t = "many" ->
              RunAfter(r, toks, i, c, h.greedy,
                       { n \in h.min..Most(toks, i, h.cls) : Run(r, toks, i + n, c).ok })
         [] h.t = "opt" ->
              OrElse(Run(h.sub \o r, toks, i, c), Run(r, toks, i, c))
         [] h.t = "alt" ->
              OrElse(Run(h.a \o r, toks, i, c), Run(h.b \o r, toks, i, c))
         [] h.t = "open" ->
              Run(r, toks, i, [c EXCEPT !.at[h.g] = i])
         [] h.t = "close" ->
              Run(r, toks, i, [c EXCEPT !.caps[h.g] = SubSeq(toks, c.at[h.g], i - 1)])
         [] h.t = "end" ->
              IF i = Len(toks) + 1 THEN Run(r, toks, i, c) ELSE NoMatch
\* the rest of the pattern after a repetition that may take any of the
\* lengths in good
RunAfter(r, toks, i, c, greedy, good) ==
    IF good = {} THEN NoMatch
    ELSE Run(r, toks, i + (IF greedy THEN SetMax(good) ELSE SetMin(good)), c)

\* re.match(p, toks)
ReMatch(p, toks) == Run(p, toks, 1, NoGroups)

\* the match at the first of the positions in starts
RunFirst(p, toks, starts) ==
    IF starts = {} THEN NoMatch ELSE Run(p, toks, SetMin(starts), NoGroups)
\* re.search(p, toks): the match at the first position that has one
ReSearch(p, toks) ==
    RunFirst(p, toks, { i \in 1..Len(toks) : Run(p, toks, i, NoGroups).ok })

\* re.findall(p, toks): the matches, left to right, each
\* search going on where the match before it ended
RECURSIVE FindAllFrom(_, _, _)
RECURSIVE FindAllNext(_, _, _, _)
FindAllFrom(p, toks, i) ==
    IF i > Len(toks) THEN <<>> ELSE FindAllNext(p, toks, i, Run(p, toks, i, NoGroups))
FindAllNext(p, toks, i, m) ==
    IF m.ok /\ m.end > i
    THEN << m >> \o FindAllFrom(p, toks, m.end)
    ELSE FindAllFrom(p, toks, i + 1)
FindAll(p, toks) == FindAllFrom(p, toks, 1)

\* "".join(toks): the text of a token run
RECURSIVE JoinToks(_)
JoinToks(toks) == IF toks = <<>> THEN <<>> ELSE toks[1] \o JoinToks(Tail(toks))

\* re.findall(r'"([^"]+)"', text): the texts of the string literals
StrTexts(toks) ==
    LET hits == FindAll(G(1, << One("str") >>), toks)
    IN [k \in 1..Len(hits) |-> Unquote(hits[k].caps[1][1])]
\* ---------------------------------------------------- end of the pattern engine

\* --------------------------------------------- the patterns of the matchers
\* A group written between the quotes of a string literal, "([^"]+)", takes
\* the literal's token here; Unquote gives the group's text.
SrcArg(g) == G(g, << Many("[^,]", 1, TRUE) >>)

\* line 132
Rx_CurrentWorkbook ==
    << Fn(<<"E","x","c","e","l",".","C","u","r","r","e","n","t","W","o","r","k","b","o","o","k">>), Lit(LPar), Lit(RPar), Lit(LBrace), Lit(LBrack),
       Lit(<<"N","a","m","e">>), Lit(EqSign) >> \o G(1, << One("str") >>)
    \o << Lit(RBrack), Lit(RBrace), Lit(LBrack), Lit(<<"C","o","n","t","e","n","t">>), Lit(RBrack), AtEnd >>

\* line 143
Rx_CsvDocument ==
    << Fn(<<"C","s","v",".","D","o","c","u","m","e","n","t">>), Lit(LPar), Lit(<<"F","i","l","e",".","C","o","n","t","e","n","t","s">>), Lit(LPar) >>
    \o G(1, << One("str") >>)
    \o << Lit(RPar),
          Opt(<< Lit(Comma), Lit(LBrack) >> \o G(2, << Many("[^]]", 0, TRUE) >>)
              \o << Lit(RBrack) >>),
          Lit(RPar), AtEnd >>
\* lines 150, 153, 157
Rx_Delimiter == << Fn(<<"D","e","l","i","m","i","t","e","r">>), Lit(EqSign) >> \o G(1, << One("str") >>)
Rx_Encoding == << Fn(<<"E","n","c","o","d","i","n","g">>), Lit(EqSign) >> \o G(1, << One("\\d") >>)
Rx_QuoteNone == << Fn(<<"Q","u","o","t","e","S","t","y","l","e">>), Lit(EqSign), Lit(<<"Q","u","o","t","e","S","t","y","l","e",".","N","o","n","e">>) >>

\* line 172
Rx_PromoteHeaders ==
    << Fn(<<"T","a","b","l","e",".","P","r","o","m","o","t","e","H","e","a","d","e","r","s">>), Lit(LPar) >> \o G(1, << Many("[^),]", 1, TRUE) >>)
    \o << Opt(<< Lit(Comma), Lit(LBrack), Many("[^]]", 0, TRUE), Lit(RBrack) >>),
          Lit(RPar), AtEnd >>

\* line 183
Rx_TransformColumnTypes ==
    << Fn(<<"T","a","b","l","e",".","T","r","a","n","s","f","o","r","m","C","o","l","u","m","n","T","y","p","e","s">>), Lit(LPar) >> \o SrcArg(1)
    \o << Lit(Comma), Lit(LBrace), Lit(LBrace) >> \o G(2, << Many(".", 1, FALSE) >>)
    \o << Lit(RBrace), Lit(RBrace), Lit(RPar), AtEnd >>
\* line 188
Rx_TypePair ==
    << Lit(LBrace) >> \o G(1, << One("str") >>) \o << Lit(Comma) >>
    \o G(2, << One("[A-Za-z0-9_.]") >>) \o << Lit(RBrace) >>

\* lines 212-215
Rx_AddColumn ==
    << Fn(<<"T","a","b","l","e",".","A","d","d","C","o","l","u","m","n">>), Lit(LPar) >> \o SrcArg(1) \o << Lit(Comma) >>
    \o G(2, << One("str") >>) \o << Lit(Comma), Lit(<<"e","a","c","h">>) >>
    \o G(3, << Many(".", 1, FALSE) >>)
    \o << Opt(<< Lit(Comma), Many("[^)]", 0, TRUE) >>), Lit(RPar), AtEnd >>

\* line 232
Rx_SelectRows ==
    << Fn(<<"T","a","b","l","e",".","S","e","l","e","c","t","R","o","w","s">>), Lit(LPar) >> \o SrcArg(1)
    \o << Lit(Comma), Lit(<<"e","a","c","h">>) >> \o G(2, << Many(".", 1, TRUE) >>)
    \o << Lit(RPar), AtEnd >>

\* line 252
Rx_Sort ==
    << Fn(<<"T","a","b","l","e",".","S","o","r","t">>), Lit(LPar) >> \o SrcArg(1) \o << Lit(Comma), Lit(LBrace) >>
    \o G(2, << Many(".", 1, TRUE) >>) \o << Lit(RBrace), Lit(RPar), AtEnd >>
\* line 256
Rx_SortPair ==
    << Lit(LBrace) >> \o G(1, << One("str") >>) \o << Lit(Comma) >>
    \o G(2, << Alt(<< Lit(<<"O","r","d","e","r",".","A","s","c","e","n","d","i","n","g">>) >>, << Lit(<<"O","r","d","e","r",".","D","e","s","c","e","n","d","i","n","g">>) >>) >>)
    \o << Lit(RBrace) >>

\* line 268
Rx_Group ==
    << Fn(<<"T","a","b","l","e",".","G","r","o","u","p">>), Lit(LPar) >> \o SrcArg(1) \o << Lit(Comma), Lit(LBrace) >>
    \o G(2, << Many("[^}]", 0, TRUE) >>) \o << Lit(RBrace), Lit(Comma), Lit(LBrace) >>
    \o G(3, << Many(".", 1, TRUE) >>) \o << Lit(RBrace), Lit(RPar), AtEnd >>
\* line 275
Rx_Aggregation ==
    << Lit(LBrace) >> \o G(1, << One("str") >>) \o << Lit(Comma), Lit(<<"e","a","c","h">>) >>
    \o G(2, << Many(".", 1, FALSE) >>)
    \o << Opt(<< Lit(Comma), Many("[^}]", 0, TRUE) >>), Lit(RBrace) >>
\* lines 277-287: List.<f>([column]) to the end of the expression
Rx_ListCall(f) ==
    << Lit(f), Lit(LPar), Lit(LBrack) >> \o G(1, << Many("[^]]", 1, TRUE) >>)
    \o << Lit(RBrack), Lit(RPar), AtEnd >>
\* line 288
Rx_RowCount == << Lit(<<"T","a","b","l","e",".","R","o","w","C","o","u","n","t">>), Lit(LPar), Lit(<<"_">>), Lit(RPar), AtEnd >>

\* lines 345-348 and 367-370: both expand patterns, f the function's name
Rx_Expand(f) ==
    << Fn(f), Lit(LPar) >> \o SrcArg(1) \o << Lit(Comma) >> \o G(2, << One("str") >>)
    \o << Lit(Comma), Lit(LBrace) >> \o G(3, << Many("[^}]", 0, TRUE) >>)
    \o << Lit(RBrace), Lit(Comma), Lit(LBrace) >> \o G(4, << Many("[^}]", 0, TRUE) >>)
    \o << Lit(RBrace), Lit(RPar), AtEnd >>
Rx_ExpandRecordColumn == Rx_Expand(<<"T","a","b","l","e",".","E","x","p","a","n","d","R","e","c","o","r","d","C","o","l","u","m","n">>)
Rx_ExpandTableColumn == Rx_Expand(<<"T","a","b","l","e",".","E","x","p","a","n","d","T","a","b","l","e","C","o","l","u","m","n">>)

\* ("([^"]+)"|\{[^\}]+\}): one key or a key list, groups g and g + 1
KeyArg(g) ==
    G(g, << Alt(G(g + 1, << One("str") >>),
                << Lit(LBrace), Many("[^}]", 1, TRUE), Lit(RBrace) >>) >>)
\* lines 393-396
Rx_Join ==
    << Fn(<<"T","a","b","l","e",".","J","o","i","n">>), Lit(LPar) >> \o SrcArg(1) \o << Lit(Comma) >> \o KeyArg(2)
    \o << Lit(Comma) >> \o SrcArg(4) \o << Lit(Comma) >> \o KeyArg(5)
    \o << Lit(Comma) >> \o G(7, << Pre(<<"J","o","i","n","K","i","n","d",".">>, "[A-Za-z]") >>)
    \o << Lit(RPar), AtEnd >>

\* line 417
Rx_FromRecords ==
    << Fn(<<"T","a","b","l","e",".","F","r","o","m","R","e","c","o","r","d","s">>), Lit(LPar), Lit(LBrace) >>
    \o G(1, << Many(".", 0, TRUE) >>) \o << Lit(RBrace), Lit(RPar), AtEnd >>

\* lines 492-495
Rx_HashTable ==
    << Fn(<<"#","t","a","b","l","e">>), Lit(LPar),
       Alt(<< Lit(<<"t","y","p","e">>), Lit(<<"t","a","b","l","e">>), Lit(LBrack) >>
           \o G(1, << Many("[^]]", 1, TRUE) >>) \o << Lit(RBrack) >>,
           G(2, << Lit(LBrace), Many(".", 0, FALSE), Lit(RBrace) >>)),
       Lit(Comma), Lit(LBrace), Lit(LBrace) >>
    \o G(3, << Many(".", 0, FALSE) >>)
    \o << Lit(RBrace), Lit(RBrace), Lit(RPar), AtEnd >>

\* lines 573-576
Rx_FromRows ==
    << Fn(<<"T","a","b","l","e",".","F","r","o","m","R","o","w","s">>), Lit(LPar), Lit(<<"J","s","o","n",".","D","o","c","u","m","e","n","t">>), Lit(LPar),
       Lit(<<"B","i","n","a","r","y",".","D","e","c","o","m","p","r","e","s","s">>), Lit(LPar), Lit(<<"B","i","n","a","r","y",".","F","r","o","m","T","e","x","t">>), Lit(LPar) >>
    \o G(1, << One("str") >>)
    \o << Lit(Comma), Lit(<<"B","i","n","a","r","y","E","n","c","o","d","i","n","g",".","B","a","s","e","6","4">>), Lit(RPar), Lit(Comma),
          Lit(<<"C","o","m","p","r","e","s","s","i","o","n",".","D","e","f","l","a","t","e">>), Lit(RPar), Lit(RPar), Lit(Comma),
          Many(".", 0, FALSE), Lit(<<"t","y","p","e">>), Lit(<<"t","a","b","l","e">>), Lit(LBrack) >>
    \o G(2, << Many("[^]]", 1, TRUE) >>) \o << Lit(RBrack), Lit(RPar), AtEnd >>

\* line 631, a re.match: the whole right-hand side is one name
Rx_Reference ==
    G(1, << Alt(<< One("qident") >>, << One("ident") >>) >>) \o << AtEnd >>

\* the matchers in the order the loop tries them (lines 131-641)
Matchers ==
    << [op |-> "Excel.CurrentWorkbook", rx |-> Rx_CurrentWorkbook],
       [op |-> "Csv.Document", rx |-> Rx_CsvDocument],
       [op |-> "Table.PromoteHeaders", rx |-> Rx_PromoteHeaders],
       [op |-> "Table.TransformColumnTypes", rx |-> Rx_TransformColumnTypes],
       [op |-> "Table.AddColumn", rx |-> Rx_AddColumn],
       [op |-> "Table.SelectRows", rx |-> Rx_SelectRows],
       [op |-> "Table.Sort", rx |-> Rx_Sort],
       [op |-> "Table.Group", rx |-> Rx_Group],
       [op |-> "Table.ExpandRecordColumn", rx |-> Rx_ExpandRecordColumn],
       [op |-> "Table.ExpandTableColumn", rx |-> Rx_ExpandTableColumn],
       [op |-> "Table.Join", rx |-> Rx_Join],
       [op |-> "Table.FromRecords", rx |-> Rx_FromRecords],
       [op |-> "#table", rx |-> Rx_HashTable],
       [op |-> "Table.FromRows", rx |-> Rx_FromRows],
       [op |-> "reference", rx |-> Rx_Reference] >>

\* does matcher k's pattern match the right-hand side
Hit(k, rhs) ==
    IF Matchers[k].op = "reference" THEN ReMatch(Matchers[k].rx, rhs)
    ELSE ReSearch(Matchers[k].rx, rhs)

\* the block of the first of the matchers in hits, else the fallback of
\* line 644
FirstBlock(hits) == IF hits = {} THEN "fallback" ELSE Matchers[SetMin(hits)].op
\* the block that handles the right-hand side: the first matcher whose
\* pattern matches (each block ends with `continue`)
Dispatch(rhs) == FirstBlock({ k \in 1..Len(Matchers) : Hit(k, rhs).ok })
\* the groups of the match of the block named op
GroupsOf(op, rhs) ==
    Hit(CHOOSE k \in 1..Len(Matchers) : Matchers[k].op = op, rhs).caps
\* -------------------------------------------------- end of the matcher patterns

\* ------------------------------------------------ values of table literals
\* a Python value of an emitted row: a string (s), an int (n), a float (s,
\* the text float() read), None, or a dict (d)
PyStr(s) == [ty |-> "str", n |-> 0, s |-> s, d |-> <<>>]
PyInt(n) == [ty |-> "int", n |-> n, s |-> <<>>, d |-> <<>>]
PyFloat(s) == [ty |-> "float", n |-> 0, s |-> s, d |-> <<>>]
PyNone == [ty |-> "None", n |-> 0, s |-> <<>>, d |-> <<>>]
PyDict(d) == [ty |-> "dict", n |-> 0, s |-> <<>>, d |-> d]

\* a dict, in insertion order: <<[k, v], ...>>;  d[k] = v
DictSet(d, k, v) ==
    IF \E i \in 1..Len(d) : d[i].k = k
    THEN [i \in 1..Len(d) |-> IF d[i].k = k THEN [k |-> k, v |-> v] ELSE d[i]]
    ELSE Append(d, [k |-> k, v |-> v])

\* digits of a Python numeral: digits, with single underscores between them
DigitRun(s) ==
    /\ s # <<>>
    /\ AllOf(s, Digits \cup {"_"})
    /\ s[1] # "_" /\ s[Len(s)] # "_"
    /\ \A i \in 1..(Len(s) - 1) : ~(s[i] = "_" /\ s[i + 1] = "_")
Unsigned(s) == IF s # <<>> /\ s[1] \in {"+", "-"} THEN Tail(s) ELSE s
DigitValue(c) == CHOOSE k \in 0..9 : <<"0","1","2","3","4","5","6","7","8","9">>[k + 1] = c
RECURSIVE DigitsValue(_)
DigitsValue(s) ==
    IF s = <<>> THEN 0
    ELSE IF s[Len(s)] = "_" THEN DigitsValue(SubSeq(s, 1, Len(s) - 1))
    ELSE 10 * DigitsValue(SubSeq(s, 1, Len(s) - 1)) + DigitValue(s[Len(s)])

\* int(v) does not raise ValueError
IsInt(v) == DigitRun(Unsigned(v))
\* int(v)
IntOf(v) == IF v[1] = "-" THEN 0 - DigitsValue(Unsigned(v)) ELSE DigitsValue(Unsigned(v))

\* float(v) does not raise ValueError: [sign] (inf | infinity | nan), or
\* [sign] digits [. [digits]] [e [sign] digits] / [sign] . digits [e ...]
IsFloat(v) ==
    LET u == Unsigned(v)
        es == { i \in 1..Len(u) : u[i] \in {"e", "E"} }
        mant == IF es = {} THEN u ELSE SubSeq(u, 1, SetMin(es) - 1)
        ex == IF es = {} THEN <<>> ELSE SubSeq(u, SetMin(es) + 1, Len(u))
        dots == { i \in 1..Len(mant) : mant[i] = "." }
        whole == IF dots = {} THEN mant ELSE SubSeq(mant, 1, SetMin(dots) - 1)
        frac == IF dots = {} THEN <<>> ELSE SubSeq(mant, SetMin(dots) + 1, Len(mant))
    IN \/ Lower(u) \in { <<"i","n","f">>, <<"i","n","f","i","n","i","t","y">>, <<"n","a","n">> }
       \/ /\ whole = <<>> \/ DigitRun(whole)
          /\ frac = <<>> \/ DigitRun(frac)
          /\ whole # <<>> \/ frac # <<>>
          /\ es = {} \/ DigitRun(Unsigned(ex))

\* lines 447-456 and 554-563: a quoted token is the string between its
\* quotes, else int(v), else float(v), else the token itself
ParseScalar(v) ==
    IF StartsWith(v, << Quote >>) /\ EndsWith(v, << Quote >>)
    THEN PyStr(SubSeq(v, 2, Len(v) - 1))
    ELSE IF IsInt(v) THEN PyInt(IntOf(v))
    ELSE IF IsFloat(v) THEN PyFloat(v)
    ELSE PyStr(v)

\* txt.split(sep, 1) on tokens: the tokens before the first sep and those
\* after it
BeforeFirst(toks, sep) ==
    SubSeq(toks, 1, SetMin({ i \in 1..Len(toks) : toks[i] = sep }) - 1)
AfterFirst(toks, sep) ==
    SubSeq(toks, SetMin({ i \in 1..Len(toks) : toks[i] = sep }) + 1, Len(toks))
HasTok(toks, sep) == \E i \in 1..Len(toks) : toks[i] = sep

\* lines 423-437: the parts of a record's text between the commas that lie
\* outside every [ ]
RECURSIVE RecordParts(_, _, _, _, _)
RecordParts(toks, i, depth, tok, parts) ==
    IF i > Len(toks) THEN (IF tok # <<>> THEN Append(parts, tok) ELSE parts)
    ELSE LET ch == toks[i]
             dp == IF ch = LBrack THEN depth + 1
                   ELSE IF ch = RBrack THEN depth - 1 ELSE depth
         IN IF ch = Comma /\ dp = 0
            THEN RecordParts(toks, i + 1, dp, <<>>, Append(parts, tok))
            ELSE RecordParts(toks, i + 1, dp, Append(tok, ch), parts)

\* lines 421-458
RECURSIVE _parse_record_literal(_)
RECURSIVE RecordFields(_, _, _)
RecordFields(parts, i, d) ==
    IF i > Len(parts) THEN d
    ELSE IF ~HasTok(parts[i], EqSign) THEN RecordFields(parts, i + 1, d)
    ELSE LET key == StripChars(JoinToks(BeforeFirst(parts[i], EqSign)), {Quote})
             vt == AfterFirst(parts[i], EqSign)
             v == JoinToks(vt)
             val == IF StartsWith(v, LBrack) /\ EndsWith(v, RBrack)
                    THEN PyDict(_parse_record_literal(SubSeq(vt, 2, Len(vt) - 1)))
                    ELSE ParseScalar(v)
         IN RecordFields(parts, i + 1, DictSet(d, key, val))
_parse_record_literal(txt) == RecordFields(RecordParts(txt, 1, 0, <<>>, <<>>), 1, <<>>)

\* lines 460-482: the records of the list's body: a record ends with the ]
\* that brings the depth back to 0; the commas after it are skipped
RECURSIVE Records(_, _, _, _, _)
Records(body, i, depth, buf, recs) ==
    IF i > Len(body) THEN recs
    ELSE LET ch == body[i]
             dp == IF ch = LBrack THEN depth + 1
                   ELSE IF ch = RBrack THEN depth - 1 ELSE depth
             b == Append(buf, ch)
         IN IF dp = 0 /\ EndsWith(JoinToks(b), RBrack)
            THEN LET inner == IF StartsWith(JoinToks(b), LBrack)
                              THEN SubSeq(b, 2, Len(b) - 1) ELSE b
                     rest == { j \in (i + 1)..Len(body) : body[j] # Comma }
                     nxt == IF rest = {} THEN Len(body) + 1 ELSE SetMin(rest)
                 IN Records(body, nxt, dp, <<>>, Append(recs, _parse_record_literal(inner)))
            ELSE Records(body, i + 1, dp, b, recs)

\* re.split(r",\s*", text) on tokens, also the comma split of lines 537-549
\* (a string literal is one token)
RECURSIVE SplitAt(_, _)
SplitAt(toks, sep) ==
    IF ~HasTok(toks, sep) THEN << toks >>
    ELSE << BeforeFirst(toks, sep) >> \o SplitAt(AfterFirst(toks, sep), sep)

\* lines 501-504: the column names of a #table
TableCols(cols_spec, cols_list) ==
    IF cols_spec # <<>>
    THEN LET parts == SplitAt(cols_spec, Comma)
         IN [k \in 1..Len(parts) |->
                StripChars(JoinToks(IF HasTok(parts[k], EqSign)
                                    THEN BeforeFirst(parts[k], EqSign)
                                    ELSE parts[k]), {Quote})]
    ELSE StrTexts(cols_list)

\* lines 506-521: the texts of the { } at depth 1 of rows_raw
RECURSIVE RowTokens(_, _, _, _, _)
RowTokens(raw, i, depth, buf, rows) ==
    IF i > Len(raw) THEN rows
    ELSE LET ch == raw[i]
         IN IF ch = LBrace /\ depth + 1 = 1
            THEN RowTokens(raw, i + 1, 1, <<>>, rows)
            ELSE LET d1 == IF ch = LBrace THEN depth + 1 ELSE depth
                     d2 == IF ch = RBrace THEN d1 - 1 ELSE d1
                 IN IF ch = RBrace /\ d2 = 0
                    THEN RowTokens(raw, i + 1, d2, buf, Append(rows, buf))
                    ELSE RowTokens(raw, i + 1, d2,
                                   IF d2 >= 1 THEN Append(buf, ch) ELSE buf, rows)

\* re.split(r'\}\s*,\s*\{', s)
RECURSIVE SplitRows(_, _, _)
SplitRows(toks, i, cur) ==
    IF i > Len(toks) THEN << cur >>
    ELSE IF i + 2 <= Len(toks) /\ SubSeq(toks, i, i + 2) = << RBrace, Comma, LBrace >>
    THEN << cur >> \o SplitRows(toks, i + 3, <<>>)
    ELSE SplitRows(toks, i + 1, Append(cur, toks[i]))

RECURSIVE LStripToks(_, _)
LStripToks(toks, t) ==
    IF toks # <<>> /\ toks[1] = t THEN LStripToks(Tail(toks), t) ELSE toks
RECURSIVE RStripToks(_, _)
RStripToks(toks, t) ==
    IF toks # <<>> /\ toks[Len(toks)] = t
    THEN RStripToks(SubSeq(toks, 1, Len(toks) - 1), t) ELSE toks

\* lines 522-529: the rows when the scan found none
RowChunks(raw) ==
    IF raw = <<>> THEN <<>>
    ELSE LET chunks == SplitRows(raw, 1, <<>>)
             n == Len(chunks)
         IN [k \in 1..n |->
                LET a == IF k = 1 THEN LStripToks(chunks[k], LBrace) ELSE chunks[k]
                IN IF k = n THEN RStripToks(a, RBrace) ELSE a]

\* lines 533-549: the value texts of one row; the text after the last
\* comma counts when it is not empty
RowVals(t) ==
    LET parts == SplitAt(t, Comma)
        n == Len(parts)
        all == [k \in 1..n |-> JoinToks(parts[k])]
    IN IF all[n] = <<>> THEN SubSeq(all, 1, n - 1) ELSE all

\* line 565: {cols[i]: parsed[i] if i < len(parsed) else None}
RECURSIVE RowDict(_, _, _, _)
RowDict(cols, vals, i, d) ==
    IF i > Len(cols) THEN d
    ELSE RowDict(cols, vals, i + 1,
                 DictSet(d, cols[i], IF i <= Len(vals) THEN ParseScalar(vals[i]) ELSE PyNone))

\* lines 506-565: the rows of a #table
TableRows(cols, raw) ==
    LET scanned == RowTokens(raw, 1, 0, <<>>, <<>>)
        toks == IF scanned = <<>> THEN RowChunks(raw) ELSE scanned
    IN [k \in 1..Len(toks) |-> RowDict(cols, RowVals(toks[k]), 1, <<>>)]
\* ------------------------------------------------- end of the table literals

\* ------------------------------------------- the statements of the matchers
\* An emitted statement is a record: op names the pandas call of the line,
\* lhs the identifier it binds or updates, the other fields its arguments.

\* _normalize_var(m.group(g).strip())
SrcOf(toks) == _normalize_var(JoinToks(toks))

\* line 135
Emit_CurrentWorkbook(lhs, c) ==
    << [op |-> "cw_get", lhs |-> lhs, nm |-> Unquote(c[1][1])] >>

\* lines 153-157: the code page of the Encoding option
CodePage(m_enc) ==
    IF m_enc.ok /\ JoinToks(m_enc.caps[1]) = <<"6","5","0","0","1">> THEN <<"u","t","f","-","8">>
    ELSE IF m_enc.ok /\ JoinToks(m_enc.caps[1]) = <<"1","2","5","2">> THEN <<"c","p","1","2","5","2">> ELSE NoneStr
\* lines 150-152: the text of the Delimiter option
Delimiter(m_delim) == IF m_delim.ok THEN Unquote(m_delim.caps[1][1]) ELSE NoneStr

\* lines 145-166
Emit_CsvDocument(lhs, c) ==
    << [op |-> "read_csv", lhs |-> lhs, path |-> Unquote(c[1][1]),
        sep |-> Delimiter(ReSearch(Rx_Delimiter, c[2])),
        encoding |-> CodePage(ReSearch(Rx_Encoding, c[2])),
        quote_none |-> ReSearch(Rx_QuoteNone, c[2]).ok] >>

\* lines 174-177
Emit_PromoteHeaders(lhs, c) ==
    << [op |-> "copy", lhs |-> lhs, src |-> SrcOf(c[1])],
       [op |-> "columns_from_first_row", lhs |-> lhs],
       [op |-> "drop_first_row", lhs |-> lhs] >>

\* typ.split(".")[-1]
LastPart(typ) ==
    LET dots == { i \in 1..Len(typ) : typ[i] = "." }
    IN IF dots = {} THEN typ ELSE SubSeq(typ, SetMax(dots) + 1, Len(typ))

\* lines 190-204: the statement of one (col, typ) pair
TypeStatement(lhs, col, typ) ==
    LET t == Lower(LastPart(typ))
        line(op, ty) == [op |-> op, lhs |-> lhs, col |-> col, ty |-> ty, t |-> t]
    IN IF t \in { <<"t","e","x","t">> } THEN line("astype", "string")
       ELSE IF t \in { <<"n","u","m","b","e","r">>, <<"d","o","u","b","l","e">>, <<"s","i","n","g","l","e">>, <<"d","e","c","i","m","a","l">> }
       THEN line("astype", "float")
       ELSE IF t \in { <<"i","n","t","6","4">>, <<"i","n","t","3","2">>, <<"i","n","t","1","6">>, <<"i","n","t","8">> }
       THEN line("to_numeric", "Int64")
       ELSE IF t \in { <<"d","a","t","e">>, <<"d","a","t","e","t","i","m","e">>, <<"d","a","t","e","t","i","m","e","z","o","n","e">> }
       THEN line("to_datetime", "datetime")
       ELSE IF t \in { <<"l","o","g","i","c","a","l">> } THEN line("astype", "boolean")
       ELSE IF t \in { <<"a","n","y">> } THEN line("comment_kept", "object")
       ELSE line("comment_todo", "none")

\* lines 190-204
TypeStatements(lhs, pairs) ==
    [k \in 1..Len(pairs) |->
        TypeStatement(lhs, Unquote(pairs[k].caps[1][1]), pairs[k].caps[2][1])]
\* lines 185-204
Emit_TransformColumnTypes(lhs, c) ==
    << [op |-> "copy", lhs |-> lhs, src |-> SrcOf(c[1])] >>
    \o TypeStatements(lhs, FindAll(Rx_TypePair, c[2]))

\* re.sub(r'\[([^\]]+)\]', f"{src}['\1']", expr): a column reference becomes
\* one token
RECURSIVE ColumnRefs(_, _)
ColumnRefs(src, toks) ==
    IF toks = <<>> THEN <<>>
    ELSE LET closes == { j \in 2..Len(toks) : toks[j] = RBrack }
             j == SetMin(closes)
         IN IF toks[1] = LBrack /\ closes # {} /\ j > 2
            THEN << src \o <<"[","'">> \o JoinToks(SubSeq(toks, 2, j - 1)) \o <<"'","]">> >>
                 \o ColumnRefs(src, SubSeq(toks, j + 1, Len(toks)))
            ELSE << toks[1] >> \o ColumnRefs(src, Tail(toks))

\* lines 220-222 and 243-245: null, true, false in any letter case
Primitive(t) ==
    IF Lower(t) = <<"n","u","l","l">> THEN <<"N","o","n","e">>
    ELSE IF Lower(t) = <<"t","r","u","e">> THEN <<"T","r","u","e">>
    ELSE IF Lower(t) = <<"f","a","l","s","e">> THEN <<"F","a","l","s","e">>
    ELSE t

\* lines 217-224
Emit_AddColumn(lhs, c) ==
    LET src == SrcOf(c[1])
        refs == ColumnRefs(src, c[3])
    IN << [op |-> "copy", lhs |-> lhs, src |-> src],
          [op |-> "set_column", lhs |-> lhs, col |-> Unquote(c[2][1]),
           expr |-> [k \in 1..Len(refs) |-> Primitive(refs[k])]] >>

\* lines 237-242: <> becomes !=, a bare = becomes ==, and / or / not (in any
\* letter case) become & / | / ~
Operator(t) ==
    IF t = <<"<",">">> THEN <<"!","=">>
    ELSE IF t = <<"=">> THEN <<"=","=">>
    ELSE IF Lower(t) = <<"a","n","d">> THEN <<"&">>
    ELSE IF Lower(t) = <<"o","r">> THEN <<"|">>
    ELSE IF Lower(t) = <<"n","o","t">> THEN <<"~">>
    ELSE t

\* lines 235-245: the row mask of a filter, token by token; no parenthesis
\* is added
Mask(src, cond) ==
    LET refs == ColumnRefs(src, cond)
    IN [k \in 1..Len(refs) |-> Primitive(Operator(refs[k]))]

\* lines 234-246
Emit_SelectRows(lhs, c) ==
    << [op |-> "mask", lhs |-> lhs, src |-> SrcOf(c[1]),
        cond |-> Mask(SrcOf(c[1]), c[2])] >>

\* lines 257-262
SortStatement(lhs, src, pairs) ==
    IF Len(pairs) > 0
    THEN << [op |-> "sort_values", lhs |-> lhs, src |-> src,
             by |-> [k \in 1..Len(pairs) |-> Unquote(pairs[k].caps[1][1])],
             ascending |-> [k \in 1..Len(pairs) |->
                               pairs[k].caps[2][1] = <<"O","r","d","e","r",".","A","s","c","e","n","d","i","n","g">>]] >>
    ELSE << [op |-> "copy", lhs |-> lhs, src |-> src] >>
\* lines 254-262
Emit_Sort(lhs, c) == SortStatement(lhs, SrcOf(c[1]), FindAll(Rx_SortPair, c[2]))

\* lines 277-287 and 290-300: the List functions and their pandas names, in
\* the order they are tested
ListFunctions ==
    << [f |-> <<"L","i","s","t",".","S","u","m">>, agg |-> "sum"], [f |-> <<"L","i","s","t",".","A","v","e","r","a","g","e">>, agg |-> "mean"],
       [f |-> <<"L","i","s","t",".","M","i","n">>, agg |-> "min"], [f |-> <<"L","i","s","t",".","M","a","x">>, agg |-> "max"],
       [f |-> <<"L","i","s","t",".","M","e","d","i","a","n">>, agg |-> "median"],
       [f |-> <<"L","i","s","t",".","S","t","a","n","d","a","r","d","D","e","v","i","a","t","i","o","n">>, agg |-> "std"],
       [f |-> <<"L","i","s","t",".","V","a","r","i","a","n","c","e">>, agg |-> "var"], [f |-> <<"L","i","s","t",".","P","r","o","d","u","c","t">>, agg |-> "prod"],
       [f |-> <<"L","i","s","t",".","F","i","r","s","t">>, agg |-> "first"], [f |-> <<"L","i","s","t",".","L","a","s","t">>, agg |-> "last"],
       [f |-> <<"L","i","s","t",".","C","o","u","n","t">>, agg |-> "size"] >>

\* the place in ListFunctions of the first function that expr calls on one
\* column, 0 when it calls none
ListFunctionOf(expr) ==
    SetMin({ k \in 1..Len(ListFunctions) :
                ReMatch(Rx_ListCall(ListFunctions[k].f), expr).ok }
           \cup { Len(ListFunctions) + 1 }) % (Len(ListFunctions) + 1)

\* lines 276-302: one aggregation of a group step, k its List function
AggregationOf(nm, expr, k) ==
    IF k # 0 /\ ListFunctions[k].agg # "size"
    THEN [kind |-> "named", nm |-> nm, expr |-> expr, fn |-> ListFunctions[k].agg,
          col |-> JoinToks(ReMatch(Rx_ListCall(ListFunctions[k].f), expr).caps[1])]
    ELSE IF k # 0 \/ ReMatch(Rx_RowCount, expr).ok
    THEN [kind |-> "size", nm |-> nm, expr |-> expr, fn |-> "size", col |-> <<>>]
    ELSE [kind |-> "raw", nm |-> nm, expr |-> expr, fn |-> "raw", col |-> <<>>]
Aggregation(nm, expr) == AggregationOf(nm, expr, ListFunctionOf(expr))

\* lines 304-317: _named (a dict: a later aggregation of the same name
\* replaces the earlier one), _sizes and _raw
RECURSIVE Named(_, _, _)
Named(aggs, i, d) ==
    IF i > Len(aggs) THEN d
    ELSE Named(aggs, i + 1,
               IF aggs[i].kind = "named"
               THEN DictSet(d, aggs[i].nm, [col |-> aggs[i].col, fn |-> aggs[i].fn])
               ELSE d)
OfKind(aggs, kind) == SelectSeq(aggs, LAMBDA a : a.kind = kind)

\* the names of aggregations
AggNames(aggs) == [k \in 1..Len(aggs) |-> aggs[k].nm]

\* lines 275-302: the aggregations of the matches of the pair pattern
Aggregations(hits) ==
    [k \in 1..Len(hits) |-> Aggregation(Unquote(hits[k].caps[1][1]), hits[k].caps[2])]

\* lines 319-339: the statements for the three kinds of aggregation
GroupStatements(lhs, src, keys, named, sizes, raw) ==
    LET note == IF raw # <<>>
                THEN << [op |-> "comment_note", lhs |-> NoneStr, raw |-> raw] >>
                ELSE <<>>
        extras(from) ==
            [k \in 1..(Len(sizes) - 1) |->
                [op |-> "copy_column", lhs |-> lhs, col |-> sizes[k + 1], from |-> from]]
        agg(target) == [op |-> "groupby_agg", lhs |-> target, src |-> src,
                        keys |-> keys, named |-> named]
        size(target) == [op |-> "groupby_size", lhs |-> target, src |-> src,
                         keys |-> keys, nm |-> sizes[1]]
    IN note \o
       (IF named # <<>> /\ sizes = <<>> THEN << agg(lhs) >>
        ELSE IF sizes # <<>> /\ named = <<>>
        THEN << size(lhs) >> \o extras(sizes[1])
        ELSE << agg(<<"_","a","g","g","_","d","f">>) >> \o
             (IF sizes # <<>>
              THEN << size(<<"_","s","i","z","e","_","d","f">>),
                      [op |-> "merge", lhs |-> lhs, left |-> <<"_","a","g","g","_","d","f">>,
                       right |-> <<"_","s","i","z","e","_","d","f">>, how |-> <<"l","e","f","t">>,
                       left_on |-> keys, right_on |-> keys] >> \o extras(sizes[1])
              ELSE << [op |-> "assign", lhs |-> lhs, src |-> <<"_","a","g","g","_","d","f">>] >>))

\* lines 304-317
GroupOf(lhs, src, keys, aggs) ==
    GroupStatements(lhs, src, keys, Named(aggs, 1, <<>>),
                    AggNames(OfKind(aggs, "size")), AggNames(OfKind(aggs, "raw")))

\* lines 270-339
Emit_Group(lhs, c) ==
    GroupOf(lhs, SrcOf(c[1]), StrTexts(c[2]), Aggregations(FindAll(Rx_Aggregation, c[3])))

\* the rename list as it would be if its length were not checked
NewNames_Unchecked(fields, newnames) == newnames

\* lines 354-355 and 376-377: `if not newnames or len(newnames) !=
\* len(fields): newnames = fields[:]`
NewNames(fields, newnames) ==
    IF newnames = <<>> \/ Len(newnames) # Len(fields) THEN fields ELSE newnames

\* lines 357-361
ExpandRecordStatements(lhs, src, col, fields, newnames) ==
    << [op |-> "drop", lhs |-> lhs, src |-> src, col |-> col],
       [op |-> "apply_series", lhs |-> <<"_","e","x","p">>, src |-> src, col |-> col] >>
    \o (IF fields # <<>>
        THEN << [op |-> "select", lhs |-> <<"_","e","x","p">>, fields |-> fields],
                [op |-> "rename", lhs |-> <<"_","e","x","p">>, fields |-> fields,
                 newnames |-> NewNames(fields, newnames)] >>
        ELSE <<>>)
    \o << [op |-> "join", lhs |-> lhs, other |-> <<"_","e","x","p">>] >>

\* lines 350-361
Emit_ExpandRecordColumn(lhs, c) ==
    ExpandRecordStatements(lhs, SrcOf(c[1]), Unquote(c[2][1]), StrTexts(c[3]), StrTexts(c[4]))

\* lines 378-387, newnames the list after line 377
ExpandTableStatements(lhs, src, col, fields, newnames) ==
    << [op |-> "copy", lhs |-> lhs, src |-> src],
       [op |-> "pop", lhs |-> <<"_","t","b","l">>, src |-> lhs, col |-> col],
       [op |-> "apply_list", lhs |-> <<"_","t","b","l">>],
       [op |-> "explode", lhs |-> <<"_","t","b","l">>],
       [op |-> "DataFrame_of", lhs |-> <<"_","d","f">>, src |-> <<"_","t","b","l">>] >>
    \o (IF fields # <<>>
        THEN << [op |-> "select", lhs |-> <<"_","d","f">>, fields |-> fields] >>
        ELSE <<>>)
    \o (IF newnames # <<>> /\ fields # <<>>
        THEN << [op |-> "rename", lhs |-> <<"_","d","f">>, fields |-> fields,
                 newnames |-> newnames] >>
        ELSE <<>>)
    \o << [op |-> "join", lhs |-> lhs, other |-> <<"_","d","f">>] >>

\* lines 372-387
Emit_ExpandTableColumn(lhs, c) ==
    ExpandTableStatements(lhs, SrcOf(c[1]), Unquote(c[2][1]), StrTexts(c[3]),
                          NewNames(StrTexts(c[3]), StrTexts(c[4])))

\* lines 403-407
_parse_keys(tok) ==
    IF StartsWith(JoinToks(tok), LBrace) THEN StrTexts(tok)
    ELSE << StripChars(JoinToks(tok), {Quote}) >>

\* line 410: the dict's .get(kind, "inner")
How(kind) ==
    IF kind = <<"I","n","n","e","r">> THEN <<"i","n","n","e","r">>
    ELSE IF kind = <<"L","e","f","t","O","u","t","e","r">> THEN <<"l","e","f","t">>
    ELSE IF kind = <<"R","i","g","h","t","O","u","t","e","r">> THEN <<"r","i","g","h","t">>
    ELSE IF kind = <<"F","u","l","l","O","u","t","e","r">> THEN <<"o","u","t","e","r">>
    ELSE <<"i","n","n","e","r">>

\* lines 398-411
Emit_Join(lhs, c) ==
    << [op |-> "merge", lhs |-> lhs, left |-> SrcOf(c[1]), right |-> SrcOf(c[4]),
        how |-> How(SubSeq(c[7][1], Len(<<"J","o","i","n","K","i","n","d",".">>) + 1, Len(c[7][1]))),
        left_on |-> _parse_keys(c[2]), right_on |-> _parse_keys(c[5])] >>

\* lines 419-484
Emit_FromRecords(lhs, c) ==
    << [op |-> "DataFrame", lhs |-> lhs, rows |-> Records(c[1], 1, 0, <<>>, <<>>)] >>

\* lines 497-567
Emit_HashTable(lhs, c) ==
    << [op |-> "DataFrame", lhs |-> lhs, rows |-> TableRows(TableCols(c[1], c[2]), c[3])] >>

\* lines 580-586: the column names of the embedded literal's table type
FromRowsCols(cols_spec) ==
    LET parts == SplitAt(cols_spec, Comma)
    IN [k \in 1..Len(parts) |->
           LET k0 == JoinToks(IF HasTok(parts[k], EqSign)
                              THEN BeforeFirst(parts[k], EqSign) ELSE parts[k])
               k1 == IF StartsWith(k0, <<"#","\"">>) /\ EndsWith(k0, << Quote >>)
                     THEN SubSeq(k0, 3, Len(k0) - 1) ELSE k0
           IN StripChars(k1, {Quote})]

\* lines 588-623, for the outcome o of decoding the payload
Emit_FromRows(lhs, c, o) ==
    LET lines == IF o.inline THEN InlineRows(lhs, o.n) ELSE RuntimeDecode(lhs)
    IN [k \in 1..Len(lines) |->
           [op |-> lines[k].tag, lhs |-> lines[k].target,
            cols |-> IF k = Len(lines) THEN FromRowsCols(c[2]) ELSE <<>>]]

\* lines 634-638
Emit_Reference(lhs, c, e) ==
    LET ref_raw == RefRaw(c[1][1])
    IN << [op |-> "copy", lhs |-> lhs, src |-> EnvGet(e, ref_raw, _normalize_var(ref_raw))] >>

\* lines 114-120: the statements of unsupported(lhs, rhs)
Emit_Unsupported(lhs_raw, rhs, last) ==
    << [op |-> "comment_unsupported", lhs |-> NoneStr, lhs_raw |-> lhs_raw, rhs |-> rhs],
       IF last # NoneStr
       THEN [op |-> "copy", lhs |-> _normalize_var(lhs_raw), src |-> last]
       ELSE [op |-> "none", lhs |-> _normalize_var(lhs_raw)] >>
\* ------------------------------------------------ end of the matcher statements

\* ------------------------------------------------- the steps that are tried
\* pairs of one declare-types list
MaxPairs == 3
\* comparisons of one filter predicate
MaxTerms == 2
\* fields, and new names, of one expand step
MaxFields == 2

\* a string literal
Str(s) == << Quote >> \o s \o << Quote >>
RECURSIVE CommaJoin(_)
CommaJoin(parts) ==
    IF parts = <<>> THEN <<>>
    ELSE IF Len(parts) = 1 THEN parts[1]
    ELSE parts[1] \o << Comma >> \o CommaJoin(Tail(parts))
\* f(a, b, ...), each argument a token sequence, and {a, b, ...}
CallOf(f, args) == << f, LPar >> \o CommaJoin(args) \o << RPar >>
Braced(items) == << LBrace >> \o CommaJoin(items) \o << RBrace >>
\* {"a", "b", ...}
StrList(texts) == Braced([k \in 1..Len(texts) |-> << Str(texts[k]) >>])
\* the source table of a step
SrcS == << <<"S">> >>
\* Foo(...): a call no matcher knows around a right-hand side
Wrapped(rhs) == CallOf(<<"F","o","o">>, << rhs >>)

\* Excel.CurrentWorkbook(){[Name="T"]}[Content]
CurrentWorkbookRhs ==
    { << <<"E","x","c","e","l",".","C","u","r","r","e","n","t","W","o","r","k","b","o","o","k">>, LPar, RPar, LBrace, LBrack, <<"N","a","m","e">>, EqSign, Str(nm),
         RBrack, RBrace, LBrack, <<"C","o","n","t","e","n","t">>, RBrack >> : nm \in TableNames }

FileContents == CallOf(<<"F","i","l","e",".","C","o","n","t","e","n","t","s">>, << << Str(<<"d",".","c","s","v">>) >> >>)
CsvOptions ==
    { << LBrack, <<"D","e","l","i","m","i","t","e","r">>, EqSign, Str(<<";">>), Comma, <<"E","n","c","o","d","i","n","g">>, EqSign, <<"6","5","0","0","1">>,
         Comma, <<"Q","u","o","t","e","S","t","y","l","e">>, EqSign, <<"Q","u","o","t","e","S","t","y","l","e",".","C","s","v">>, RBrack >>,
      << LBrack, <<"E","n","c","o","d","i","n","g">>, EqSign, <<"1","2","5","2">>, Comma, <<"Q","u","o","t","e","S","t","y","l","e">>, EqSign,
         <<"Q","u","o","t","e","S","t","y","l","e",".","N","o","n","e">>, RBrack >>,
      << LBrack, <<"E","n","c","o","d","i","n","g">>, EqSign, <<"1","2","0","0">>, RBrack >> }
CsvDocumentRhs ==
    { CallOf(<<"C","s","v",".","D","o","c","u","m","e","n","t">>, << FileContents >>) }
    \cup { CallOf(<<"C","s","v",".","D","o","c","u","m","e","n","t">>, << FileContents, o >>) : o \in CsvOptions }

PromoteHeadersRhs ==
    { CallOf(<<"T","a","b","l","e",".","P","r","o","m","o","t","e","H","e","a","d","e","r","s">>, << SrcS >>),
      CallOf(<<"T","a","b","l","e",".","P","r","o","m","o","t","e","H","e","a","d","e","r","s">>, << SrcS, << LBrack, <<"P","r","o","m","o","t","e","A","l","l","S","c","a","l","a","r","s">>, EqSign, <<"t","r","u","e">>, RBrack >> >>) }

\* type tags as written in a declare-types list
TypeTags ==
    { << <<"t","y","p","e">>, <<"t","e","x","t">> >>, << <<"t","y","p","e">>, <<"d","a","t","e","t","i","m","e">> >>, << <<"I","n","t","6","4",".","T","y","p","e">> >>,
      << <<"C","u","r","r","e","n","c","y",".","T","y","p","e">> >>, << <<"n","u","m","b","e","r">> >> }
ColumnNames == << <<"a">>, <<"b">>, <<"c">>, <<"d">>, <<"e">> >>
\* {{"a", tag}, {"b", tag}, ...}
TypeList(tags) ==
    Braced([k \in 1..Len(tags) |-> Braced(<< << Str(ColumnNames[k]) >>, tags[k] >>)])
TransformColumnTypesRhs ==
    { CallOf(<<"T","a","b","l","e",".","T","r","a","n","s","f","o","r","m","C","o","l","u","m","n","T","y","p","e","s">>, << SrcS, TypeList(tags) >>) :
        tags \in SeqsUpTo(TypeTags, MaxPairs) \ { <<>> } }

\* each [A] + 1, with and without a type argument
AddColumnRhs ==
    LET each == << <<"e","a","c","h">>, LBrack, <<"A">>, RBrack, <<"+">>, <<"1">> >>
    IN { CallOf(<<"T","a","b","l","e",".","A","d","d","C","o","l","u","m","n">>, << SrcS, << Str(<<"c">>) >>, each >>),
         CallOf(<<"T","a","b","l","e",".","A","d","d","C","o","l","u","m","n">>, << SrcS, << Str(<<"c">>) >>, each, << <<"t","y","p","e">>, <<"n","u","m","b","e","r">> >> >>),
         CallOf(<<"T","a","b","l","e",".","A","d","d","C","o","l","u","m","n">>, << SrcS, << Str(<<"c">>) >>, << <<"e","a","c","h">>, <<"n","u","l","l">> >> >>) }

\* the comparisons of a predicate, plain and negated
Comparisons ==
    { << LBrack, <<"B">>, RBrack, <<"=">>, Str(<<"X">>) >>,
      << LBrack, <<"A">>, RBrack, <<">","=">>, <<"2">> >>,
      << LBrack, <<"A">>, RBrack, <<"<",">">>, <<"n","u","l","l">> >> }
Terms == Comparisons \cup { << <<"n","o","t">> >> \o cmp : cmp \in Comparisons }
RECURSIVE Predicates(_)
Predicates(n) ==
    IF n <= 1 THEN Terms
    ELSE LET shorter == Predicates(n - 1)
         IN shorter \cup { p \o << op >> \o t :
                              p \in shorter, op \in { <<"a","n","d">>, <<"o","r">> }, t \in Terms }
SelectRowsRhs ==
    { CallOf(<<"T","a","b","l","e",".","S","e","l","e","c","t","R","o","w","s">>, << SrcS, << <<"e","a","c","h">> >> \o p >>) : p \in Predicates(MaxTerms) }

SortRhs ==
    { CallOf(<<"T","a","b","l","e",".","S","o","r","t">>, << SrcS, Braced(<< Braced(<< << Str(<<"a">>) >>, << <<"O","r","d","e","r",".","D","e","s","c","e","n","d","i","n","g">> >> >>),
                                              Braced(<< << Str(<<"b">>) >>, << <<"O","r","d","e","r",".","A","s","c","e","n","d","i","n","g">> >> >>) >>) >>),
      CallOf(<<"T","a","b","l","e",".","S","o","r","t">>, << SrcS, Braced(<< << Str(<<"a">>) >> >>) >>) }

\* {"n", each List.Sum([v]), type number} and the like
AggregationForms ==
    { << LBrace, Str(<<"n">>), Comma, <<"e","a","c","h">>, <<"L","i","s","t",".","S","u","m">>, LPar, LBrack, <<"v">>, RBrack, RPar,
         Comma, <<"t","y","p","e">>, <<"n","u","m","b","e","r">>, RBrace >>,
      << LBrace, Str(<<"m">>), Comma, <<"e","a","c","h">>, <<"L","i","s","t",".","M","a","x">>, LPar, LBrack, <<"v">>, RBrack, RPar, RBrace >>,
      << LBrace, Str(<<"k">>), Comma, <<"e","a","c","h">>, <<"T","a","b","l","e",".","R","o","w","C","o","u","n","t">>, LPar, <<"_">>, RPar, Comma,
         <<"I","n","t","6","4",".","T","y","p","e">>, RBrace >>,
      << LBrace, Str(<<"c">>), Comma, <<"e","a","c","h">>, <<"L","i","s","t",".","C","o","u","n","t">>, LPar, LBrack, <<"v">>, RBrack, RPar, RBrace >>,
      << LBrace, Str(<<"r">>), Comma, <<"e","a","c","h">>, <<"_">>, RBrace >> }
GroupRhs ==
    { CallOf(<<"T","a","b","l","e",".","G","r","o","u","p">>, << SrcS, StrList(<< <<"g">> >>), Braced(aggs) >>) :
        aggs \in { << a >> : a \in AggregationForms }
                 \cup { << a, b >> : a \in AggregationForms, b \in AggregationForms } }

\* the field names of a record or nested table, and the new names
FieldNames == { <<"x">>, <<"y">> }
NewNamePool == { <<"X">>, <<"Y">> }
ExpandRhs(f) ==
    { CallOf(f, << SrcS, << Str(<<"R","e","c">>) >>, StrList(fields) >> \o renames) :
        fields \in SeqsUpTo(FieldNames, MaxFields),
        renames \in { <<>> } \cup { << StrList(ns) >> : ns \in SeqsUpTo(NewNamePool, MaxFields) } }

\* a key or a key list; a JoinKind; the extra argument of the call form
\* of test_multikey_join
LeftKeys == { << Str(<<"k","1">>) >>, StrList(<< <<"k","1">>, <<"k","2">> >>) }
RightKeys == { << Str(<<"k","3">>) >>, StrList(<< <<"k","3">>, <<"k","4">> >>) }
JoinKinds == { <<"J","o","i","n","K","i","n","d",".","I","n","n","e","r">>, <<"J","o","i","n","K","i","n","d",".","L","e","f","t","O","u","t","e","r">>, <<"J","o","i","n","K","i","n","d",".","R","i","g","h","t","O","u","t","e","r">>,
               <<"J","o","i","n","K","i","n","d",".","F","u","l","l","O","u","t","e","r">>, <<"J","o","i","n","K","i","n","d",".","L","e","f","t","A","n","t","i">> }
JoinRhs ==
    { CallOf(<<"T","a","b","l","e",".","J","o","i","n">>, << SrcS, lk, << <<"B">> >>, rk >> \o extra \o << << kind >> >>) :
        lk \in LeftKeys, rk \in RightKeys, kind \in JoinKinds,
        extra \in { <<>>, << << Str(<<"B","c","o","l","s">>) >> >> } }

\* value tokens of record literals and row matrices
ValueTokens ==
    { <<"1">>, <<"2">>, <<"-","3">>, <<"1","_","0">>, <<"1",".","5">>, <<"1","e","3">>, <<".","5">>, <<"n","a","n">>, <<"\"","x","\"">>, <<"\"","1","\"">>, <<"\"","\"">>, <<"t","r","u","e">>, <<"T","r","u","e">>,
      <<"F","A","L","S","E">>, <<"n","u","l","l">>, <<"N","U","L","L">>, <<"f","o","o">>, <<"T","1">> }
\* [A=1,B="x"]
Rec2(a, b) == << LBrack, <<"A">>, EqSign, a, Comma, <<"B">>, EqSign, b, RBrack >>
FromRecordsRhs ==
    { CallOf(<<"T","a","b","l","e",".","F","r","o","m","R","e","c","o","r","d","s">>, << Braced(<< << LBrack, <<"A">>, EqSign, v, RBrack >> >>) >>) :
        v \in ValueTokens }
    \cup { CallOf(<<"T","a","b","l","e",".","F","r","o","m","R","e","c","o","r","d","s">>, << Braced(<< Rec2(<<"1">>, <<"\"","x","\"">>), Rec2(<<"2">>, <<"\"","y","\"">>) >>) >>),
           CallOf(<<"T","a","b","l","e",".","F","r","o","m","R","e","c","o","r","d","s">>,
                  << Braced(<< << LBrack, <<"A">>, EqSign, <<"1">>, Comma, <<"R","e","c">>, EqSign, LBrack,
                                  <<"x">>, EqSign, <<"1","0">>, Comma, <<"y">>, EqSign, <<"t","r","u","e">>, RBrack,
                                  RBrack >> >>) >>),
           CallOf(<<"T","a","b","l","e",".","F","r","o","m","R","e","c","o","r","d","s">>, << Braced(<< << <<"r","1">> >>, << <<"r","2">> >> >>) >>) }

TableType == << <<"t","y","p","e">>, <<"t","a","b","l","e">>, LBrack, <<"A">>, EqSign, <<"n","u","m","b","e","r">>, Comma, <<"B">>, EqSign, <<"t","e","x","t">>, RBrack >>
HashTableRhs ==
    { CallOf(<<"#","t","a","b","l","e">>, << StrList(<< <<"A">> >>), Braced(<< Braced(<< << v >> >>) >>) >>) :
        v \in ValueTokens }
    \cup { CallOf(<<"#","t","a","b","l","e">>, << cols, Braced(<< Braced(<< << <<"1">> >>, << <<"\"","x","\"">> >> >>),
                                               Braced(<< << <<"2">> >>, << <<"\"","y","\"">> >> >>) >>) >>) :
             cols \in { TableType, StrList(<< <<"A">>, <<"B">> >>) } }
    \cup { CallOf(<<"#","t","a","b","l","e">>, << StrList(<< <<"A">>, <<"B">> >>), Braced(<< Braced(<< << <<"1">> >> >>) >>) >>) }

FromRowsRhs ==
    { CallOf(<<"T","a","b","l","e",".","F","r","o","m","R","o","w","s">>,
        << CallOf(<<"J","s","o","n",".","D","o","c","u","m","e","n","t">>,
             << CallOf(<<"B","i","n","a","r","y",".","D","e","c","o","m","p","r","e","s","s">>,
                  << CallOf(<<"B","i","n","a","r","y",".","F","r","o","m","T","e","x","t">>, << << Str(<<"i","4","5","W">>) >>, << <<"B","i","n","a","r","y","E","n","c","o","d","i","n","g",".","B","a","s","e","6","4">> >> >>),
                     << <<"C","o","m","p","r","e","s","s","i","o","n",".","D","e","f","l","a","t","e">> >> >>) >>),
           << <<"l","e","t">>, <<"_","t">>, EqSign, <<"t","y","p","e">>, <<"t","e","x","t">>, <<"i","n">>, <<"t","y","p","e">>, <<"t","a","b","l","e">>, LBrack,
              <<"A">>, EqSign, <<"_","t">>, Comma, <<"#","\"","B"," ","c","\"">>, EqSign, <<"_","t">>, RBrack >> >>) }

ReferenceRhs == { << <<"S">> >>, << <<"#","\"","B"," ","c","\"">> >>, << <<"O","t","h","e","r",".","Q","u","e","r","y">> >> }

\* calls of the four operations the matcher chain has no block for, and of
\* a function that is not an operation at all
NoMatcherRhs ==
    { CallOf(<<"T","a","b","l","e",".","U","n","p","i","v","o","t","O","t","h","e","r","C","o","l","u","m","n","s">>, << SrcS, StrList(<< <<"k">> >>), << Str(<<"A","t","t","r">>) >>, << Str(<<"V","a","l">>) >> >>),
      CallOf(<<"T","a","b","l","e",".","U","n","p","i","v","o","t">>, << SrcS, StrList(<< <<"a">>, <<"b">> >>), << Str(<<"A","t","t","r">>) >>, << Str(<<"V","a","l">>) >> >>),
      CallOf(<<"T","a","b","l","e",".","P","i","v","o","t">>, << SrcS, StrList(<< <<"a">>, <<"b">> >>), << Str(<<"A","t","t","r">>) >>, << Str(<<"V","a","l">>) >> >>),
      CallOf(<<"T","a","b","l","e",".","D","i","s","t","i","n","c","t">>, << SrcS >>),
      CallOf(<<"T","a","b","l","e",".","D","i","s","t","i","n","c","t">>, << SrcS, StrList(<< <<"k">> >>) >>),
      CallOf(<<"T","a","b","l","e",".","R","e","m","o","v","e","R","o","w","s","W","i","t","h","E","r","r","o","r","s">>, << SrcS >>),
      CallOf(<<"F","o","o">>, << SrcS >>) }

\* right-hand sides that are one call of an operation
SingleCalls ==
    CsvDocumentRhs \cup PromoteHeadersRhs \cup TransformColumnTypesRhs \cup AddColumnRhs
    \cup SelectRowsRhs \cup SortRhs \cup GroupRhs \cup ExpandRhs(<<"T","a","b","l","e",".","E","x","p","a","n","d","R","e","c","o","r","d","C","o","l","u","m","n">>)
    \cup ExpandRhs(<<"T","a","b","l","e",".","E","x","p","a","n","d","T","a","b","l","e","C","o","l","u","m","n">>) \cup JoinRhs \cup FromRecordsRhs
    \cup HashTableRhs \cup FromRowsRhs \cup NoMatcherRhs

\* one recognized call of each operation as the argument of Foo(...)
WrappedRhs ==
    { Wrapped(rhs) :
        rhs \in { r \in SingleCalls \ NoMatcherRhs :
                    \A q \in SingleCalls \ NoMatcherRhs : r[1] = q[1] => Len(r) <= Len(q) } }

StepRhs == CurrentWorkbookRhs \cup SingleCalls \cup ReferenceRhs \cup WrappedRhs

\* what the loop holds when it reaches the step: the binding name, the
\* Binding Environment and the last produced identifier
StepContexts ==
    { [lhs_raw |-> <<"A">>, env |-> EmptyEnv, last_df |-> NoneStr],
      [lhs_raw |-> <<"#","\"","B"," ","c","\"">>, env |-> EnvSet(EmptyEnv, <<"S">>, <<"S">>), last_df |-> <<"S">>] }

\* line 129
StepLhs == _normalize_var(given.lhs_raw)

\* the block of matcher op is the one that runs
Tried(op) == fn = "none" /\ Dispatch(arg) = op

\* the tail of every matcher block: env[lhs_raw] = lhs; last_df = lhs; continue
StepDone(op, stmts, cw) ==
    /\ fn' = op
    /\ res' = [py |-> stmts, env |-> EnvSet(given.env, given.lhs_raw, StepLhs),
               last_df |-> StepLhs, cw_needed |-> cw, exc |-> "none"]
    /\ UNCHANGED << arg, given, convVars, resVars, comVars >>

Step_CurrentWorkbook ==
    /\ Tried("Excel.CurrentWorkbook")
    /\ StepDone("Excel.CurrentWorkbook",
                Emit_CurrentWorkbook(StepLhs, GroupsOf("Excel.CurrentWorkbook", arg)), TRUE)
Step_CsvDocument ==
    /\ Tried("Csv.Document")
    /\ StepDone("Csv.Document", Emit_CsvDocument(StepLhs, GroupsOf("Csv.Document", arg)), FALSE)
Step_PromoteHeaders ==
    /\ Tried("Table.PromoteHeaders")
    /\ StepDone("Table.PromoteHeaders",
                Emit_PromoteHeaders(StepLhs, GroupsOf("Table.PromoteHeaders", arg)), FALSE)
Step_TransformColumnTypes ==
    /\ Tried("Table.TransformColumnTypes")
    /\ StepDone("Table.TransformColumnTypes",
                Emit_TransformColumnTypes(StepLhs, GroupsOf("Table.TransformColumnTypes", arg)),
                FALSE)
Step_AddColumn ==
    /\ Tried("Table.AddColumn")
    /\ StepDone("Table.AddColumn", Emit_AddColumn(StepLhs, GroupsOf("Table.AddColumn", arg)), FALSE)
Step_SelectRows ==
    /\ Tried("Table.SelectRows")
    /\ StepDone("Table.SelectRows", Emit_SelectRows(StepLhs, GroupsOf("Table.SelectRows", arg)), FALSE)
Step_Sort ==
    /\ Tried("Table.Sort")
    /\ StepDone("Table.Sort", Emit_Sort(StepLhs, GroupsOf("Table.Sort", arg)), FALSE)
Step_Group ==
    /\ Tried("Table.Group")
    /\ StepDone("Table.Group", Emit_Group(StepLhs, GroupsOf("Table.Group", arg)), FALSE)
Step_ExpandRecordColumn ==
    /\ Tried("Table.ExpandRecordColumn")
    /\ StepDone("Table.ExpandRecordColumn",
                Emit_ExpandRecordColumn(StepLhs, GroupsOf("Table.ExpandRecordColumn", arg)), FALSE)
Step_ExpandTableColumn ==
    /\ Tried("Table.ExpandTableColumn")
    /\ StepDone("Table.ExpandTableColumn",
                Emit_ExpandTableColumn(StepLhs, GroupsOf("Table.ExpandTableColumn", arg)), FALSE)
Step_Join ==
    /\ Tried("Table.Join")
    /\ StepDone("Table.Join", Emit_Join(StepLhs, GroupsOf("Table.Join", arg)), FALSE)
Step_FromRecords ==
    /\ Tried("Table.FromRecords")
    /\ StepDone("Table.FromRecords", Emit_FromRecords(StepLhs, GroupsOf("Table.FromRecords", arg)), FALSE)
Step_HashTable ==
    /\ Tried("#table")
    /\ StepDone("#table", Emit_HashTable(StepLhs, GroupsOf("#table", arg)), FALSE)
\* lines 572-627; an exception of lines 608-612 leaves the loop
Step_FromRows ==
    /\ Tried("Table.FromRows")
    /\ \E o \in FromRowsOutcomes :
          IF o.err # "none"
          THEN /\ fn' = "Table.FromRows"
               /\ res' = [py |-> <<>>, env |-> given.env, last_df |-> given.last_df,
                          cw_needed |-> FALSE, exc |-> o.err]
               /\ UNCHANGED << arg, given, convVars, resVars, comVars >>
          ELSE StepDone("Table.FromRows",
                        Emit_FromRows(StepLhs, GroupsOf("Table.FromRows", arg), o), FALSE)
Step_Reference ==
    /\ Tried("reference")
    /\ StepDone("reference", Emit_Reference(StepLhs, GroupsOf("reference", arg), given.env), FALSE)
\* line 644: unsupported() sets last_df and leaves env alone
Step_Fallback ==
    /\ Tried("fallback")
    /\ fn' = "fallback"
    /\ res' = [py |-> Emit_Unsupported(given.lhs_raw, arg, given.last_df), env |-> given.env,
               last_df |-> StepLhs, cw_needed |-> FALSE, exc |-> "none"]
    /\ UNCHANGED << arg, given, convVars, resVars, comVars >>

InitStep ==
    /\ arg \in StepRhs
    /\ given \in StepContexts
    /\ fn = "none"
    /\ res = <<>>
    /\ ConvertIdleAll
    /\ ExtractIdle

NextStep ==
    \/ Step_CurrentWorkbook
    \/ Step_CsvDocument
    \/ Step_PromoteHeaders
    \/ Step_TransformColumnTypes
    \/ Step_AddColumn
    \/ Step_SelectRows
    \/ Step_Sort
    \/ Step_Group
    \/ Step_ExpandRecordColumn
    \/ Step_ExpandTableColumn
    \/ Step_Join
    \/ Step_FromRecords
    \/ Step_HashTable
    \/ Step_FromRows
    \/ Step_Reference
    \/ Step_Fallback

SpecStep == InitStep /\ [][NextStep]_vars
\* ------------------------------------------------- end of the step specification

\* ================================================================ claims
\* ---- helpers: the output of one translation
AliasLines == { i \in 1..Len(py) : py[i].tag = "alias" }
BindingLines(buf) == { i \in 1..Len(buf) : buf[i].tag # "alias" /\ buf[i].target # NoneStr }
\* the identifier bound by the last step statement of the buffer
LastEmitted(buf) ==
    IF BindingLines(buf) = {} THEN NoneStr
    ELSE buf[CHOOSE i \in BindingLines(buf) : \A j \in BindingLines(buf) : j <= i].target
StepNames == { steps[i].lhs_raw : i \in 1..Len(steps) }
\* a line Python does not execute: blank, or a comment
IsCommentLine(line) == LStrip(line) = <<>> \/ LStrip(line)[1] = "#"
LinesOf(text) == { SplitLines(text)[i] : i \in 1..Len(SplitLines(text)) }

\* C1: every call of convert_m_to_python returns (no exception leaves it)
\* and its output ends with exactly one alias statement binding the
\* normalized query name, added after every step statement.
C1_ReturnsWithOneTrailingAlias ==
    pc \in {"done", "raised"} =>
        /\ pc = "done"
        /\ py[Len(py)].tag = "alias"
        /\ py[Len(py)].target = _normalize_var(query_name)
        /\ Cardinality(AliasLines) = 1

\* C2: when the script ends with `in X` and X is the binding name of some
\* step (recognized or fallback), the alias binds the query name to the
\* normalized identifier of X.
C2_AliasBindsInName ==
    (pc = "done" /\ let_match /\ out_name_raw \in StepNames) =>
        py[Len(py)].src = _normalize_var(out_name_raw)

\* C3: without an `in` clause, or with an `in` name that is no binding of
\* the Binding Environment, the alias binds the query name to the identifier
\* of the last step emitted, and to the normalized query name itself when no
\* step was emitted.
C3_AliasFallsBackToLastStep ==
    (pc = "done" /\ (m_code.inName = NoneStr \/ m_code.inName \notin DOMAIN env)) =>
        LET body == SubSeq(py, 1, Len(py) - 1)
        IN py[Len(py)].src = IF LastEmitted(body) # NoneStr
                             THEN LastEmitted(body)
                             ELSE _normalize_var(query_name)

\* a script `let ... in X` whose two steps were both emitted, none of them
\* registering X in env
C3_Witness ==
    /\ pc = "done"
    /\ m_code.inName # NoneStr
    /\ m_code.inName \notin DOMAIN env
    /\ Len(steps) = 2
    /\ py[Len(py)].src = _normalize_var(steps[2].lhs_raw)

\* C4: for an unrecognized step the translator appends a marker that carries
\* the original `name = expression` text and is entirely a comment (no line
\* of it is executable), followed by one statement binding the normalized
\* name to a copy of the most recent identifier or to a placeholder.
C4_FallbackMarkerIsInert ==
    \A i \in 1..Len(py) :
        py[i].tag = "marker" =>
            /\ \E n \in StepNames, rhs \in UnrecognizedRhs :
                   EndsWith(py[i].text, n \o <<" ", "=", " ">> \o rhs)
            /\ \A line \in LinesOf(py[i].text) : IsCommentLine(line)
            /\ i < Len(py)
            /\ py[i + 1].tag \in {"copy", "none"}
            /\ py[i + 1].tag = "copy" => py[i + 1].src # NoneStr

\* C5: an embedded compressed literal step never makes the translation
\* raise, whatever its payload decodes to.
C5_FromRowsNeverRaises == pc # "raised" /\ exc = "none"

\* ---- helpers: the reference graph of the mapping, from the scripts
Refs(n) ==
    ({ t.name : t \in ScriptOf(queries, n) } \cap Known(queries)) \ {n}
RECURSIVE Closure(_)
Closure(S) ==
    LET S2 == S \cup UNION { Refs(n) : n \in S }
    IN IF S2 = S THEN S ELSE Closure(S2)
\* the target and everything reachable from it through references
ReachableFrom(t) == Closure({t})
Acyclic == \A n \in Known(queries) : n \notin Closure(Refs(n))
Pos(sq, x) == CHOOSE i \in 1..Len(sq) : sq[i] = x
Elems(sq) == { sq[i] : i \in 1..Len(sq) }
ChainOps == {"dependency_chain_for", "cli_dependency_chain_for"}
ChainReturned == call.op \in ChainOps /\ call.target \in Known(queries)

\* C6: topo_order_queries returns, without raising, a permutation of the
\* mapping's names, also with dangling references, self references and
\* reference cycles.
C6_GlobalOrderIsPermutation ==
    call.op = "topo_order_queries" =>
        /\ ret.err = "none"
        /\ Len(ret.val) = Cardinality(Known(queries))
        /\ Elems(ret.val) = Known(queries)

\* the order of a mapping with a cycle, self references and dangling ones
C6_Witness ==
    /\ call.op = "topo_order_queries"
    /\ ~Acyclic
    /\ \E i \in 1..Len(queries) :
           /\ Tok("quoted", UnknownName) \in queries[i].script
           /\ Tok("bare", queries[i].name) \in queries[i].script

\* C7: when the reference graph is acyclic, every query comes after every
\* query its script references.
C7_DependenciesFirst ==
    (call.op = "topo_order_queries" /\ Acyclic) =>
        \A n \in Known(queries) : \A d \in Refs(n) :
            Pos(ret.val, d) < Pos(ret.val, n)

\* the order of an acyclic mapping with a query that references two others,
\* one of which references the other
C7_Witness ==
    /\ call.op = "topo_order_queries"
    /\ Acyclic
    /\ \E n \in Known(queries) : \E d \in Refs(n) : \E e \in Refs(d) : e \in Refs(n)

\* C8: for a target of the mapping, the chain ends with the target, which
\* occurs in it exactly once.
C8_ChainEndsWithTarget ==
    ChainReturned =>
        /\ ret.val # <<>>
        /\ ret.val[Len(ret.val)] = call.target
        /\ Cardinality({ i \in 1..Len(ret.val) : ret.val[i] = call.target }) = 1

\* C9: for a target of the mapping, the chain holds exactly the target and
\* the queries reachable from it, each once, in the relative order of the
\* global order; with C referencing B and B referencing A the chain for C is
\* [A, B, C].
C9_ChainIsReachableSetInGlobalOrder ==
    ChainReturned =>
        LET reach == ReachableFrom(call.target)
            order == topo_order_queries(queries)
        IN /\ Elems(ret.val) = reach
           /\ Len(ret.val) = Cardinality(reach)
           /\ \A i, j \in 1..Len(ret.val) :
                  i < j => Pos(order, ret.val[i]) < Pos(order, ret.val[j])
           /\ ( /\ call.target = <<"C">>
                /\ Refs(<<"C">>) = { <<"B">> }
                /\ Refs(<<"B">>) = { <<"A">> }
                /\ Refs(<<"A">>) = {} )
              => ret.val = << <<"A">>, <<"B">>, <<"C">> >>

\* the chain for C, where C references B and B references A
C9_Witness ==
    /\ call.op = "dependency_chain_for"
    /\ call.target = <<"C">>
    /\ Refs(<<"C">>) = { <<"B">> }
    /\ Refs(<<"B">>) = { <<"A">> }
    /\ Refs(<<"A">>) = {}
    /\ ret.val = << <<"A">>, <<"B">>, <<"C">> >>

\* C10, as claimed: for a target that is no key of the mapping,
\* dependency_chain_for reports an "unknown query" error condition and does
\* not return an empty list.
C10_UnknownTargetReported ==
    (call.op \in ChainOps /\ call.target \notin Known(queries)) =>
        ret.err # "none"

\* C10, amended: for a target that is no key of the mapping,
\* dependency_chain_for reports no error and returns the empty list.
C10_UnknownTargetGivesEmptyList ==
    (call.op \in ChainOps /\ call.target \notin Known(queries)) =>
        ret = Result("none", <<>>)

\* the chain asked for a name that no query has but that scripts reference
C10_Witness ==
    /\ call.op = "dependency_chain_for"
    /\ call.target = UnknownName
    /\ \E i \in 1..Len(queries) : Tok("quoted", UnknownName) \in queries[i].script
    /\ ret.val = <<>>

\* ---- helpers: what the Kahn sweep can emit
\* the queries the sweep emits: those whose references are all emitted
RECURSIVE Sweepable(_)
Sweepable(S) ==
    LET S2 == { n \in Known(queries) : Refs(n) \subseteq S }
    IN IF S2 = S THEN S ELSE Sweepable(S2)
Swept == Sweepable({})
\* on a reference cycle, or depending on one
Stuck == Known(queries) \ Swept
\* the fixed ordering of the names
NameRank(n) == CHOOSE i \in 1..Len(NamePool) : NamePool[i] = n
TopoReturned == call.op = "topo_order_queries"
StuckAfterSwept ==
    \A s \in Swept : \A r \in Stuck : Pos(ret.val, s) < Pos(ret.val, r)

\* C11, as claimed: every query the sweep cannot emit is placed after all
\* the queries the sweep emitted, and these remaining queries are listed
\* among themselves in name order.
C11_RemainingInNameOrder ==
    TopoReturned =>
        /\ StuckAfterSwept
        /\ \A a, b \in Stuck :
               NameRank(a) < NameRank(b) => Pos(ret.val, a) < Pos(ret.val, b)

\* C11, amended: every query the sweep cannot emit is placed after all the
\* queries the sweep emitted, and these remaining queries are listed among
\* themselves in the insertion order of the mapping.
C11_RemainingInInsertionOrder ==
    TopoReturned =>
        /\ StuckAfterSwept
        /\ \A a, b \in Stuck :
               Pos(Keys(queries), a) < Pos(Keys(queries), b)
                   => Pos(ret.val, a) < Pos(ret.val, b)

\* the order of a mapping in which one query is emitted by the sweep and two
\* are on a cycle, inserted against the name order
C11_Witness ==
    /\ TopoReturned
    /\ Swept # {}
    /\ \E a, b \in Stuck :
           /\ NameRank(a) < NameRank(b)
           /\ Pos(Keys(queries), b) < Pos(Keys(queries), a)
           /\ Pos(ret.val, b) < Pos(ret.val, a)

\* ---- helpers: the same (name, script) pairs inserted in name order
InNameOrder(qs) ==
    [i \in 1..Len(qs) |->
        [name |-> NamePool[i], script |-> ScriptOf(qs, NamePool[i])]]

\* C12: the global order depends only on the set of (name, script) pairs:
\* the mapping gives the same order as the mapping holding the same pairs
\* inserted in name order.
C12_OrderIgnoresInsertionOrder ==
    TopoReturned => ret.val = topo_order_queries(InNameOrder(queries))

\* ---- helpers: the comment marker as the language has it
\* the script without its comments, where only the double quote delimits a
\* string literal
WithoutComments(m) == StripWith(m, {"\""})
Scanned == fn = "find_query_refs"

\* C13: a known query name that occurs only after a `//` marker lying
\* outside every double-quoted string literal of its line creates no
\* dependency edge, whatever precedes the marker on that line, and text
\* after a `//` that lies inside a string literal is still scanned: the
\* references found are those of the script without its comments.
C13_CommentsCreateNoEdge ==
    Scanned =>
        \A n \in ScanKnown :
            n \in res <=> n \in find_query_refs(Tokens(WithoutComments(arg)), ScanKnown)

\* ---- helpers: the identifiers of the target language
\* [A-Za-z_][A-Za-z0-9_]*
IsIdentifier(s) ==
    /\ s # <<>>
    /\ s[1] \in Letters \cup {"_"}
    /\ \A i \in 1..Len(s) : s[i] \in WordChars
\* names in which nothing is left once blanks, the #"..." wrapper and the
\* quotes are taken off
EmptyNames ==
    { <<>>, <<" ">>, <<" ", " ">>, <<"#", "\"">>, <<"#", "\"", "\"">>,
      <<"#", "\"", " ", "\"">>, <<"\"", "\"">>, <<"'", "'">>, <<"\"">>,
      <<"'">>, <<" ", "\"", "\"", " ">>, <<"\"", "'", "'", "\"">> }

\* C14: for every input string, _normalize_var returns a non-empty string
\* matching [A-Za-z_][A-Za-z0-9_]*, and an input that normalizes to nothing
\* yields the placeholder `step`.
C14_NormalizedIsIdentifier ==
    fn = "_normalize_var" =>
        /\ IsIdentifier(res)
        /\ arg \in EmptyNames => res = StepPlaceholder
        /\ (\A i \in 1..Len(arg) : arg[i] \in Whitespace) => res = StepPlaceholder

\* a name wrapped as #"..." whose content begins with a digit
C14_Witness ==
    /\ fn = "_normalize_var"
    /\ arg = <<"#", "\"", "1", "\"">>
    /\ res = <<"_", "1">>

\* C15: _normalize_var is idempotent, and every string that already matches
\* [A-Za-z_][A-Za-z0-9_]* is returned unchanged.
C15_NormalizeIdempotent ==
    /\ fn = "_normalize_var twice" => res = given
    /\ (fn = "_normalize_var" /\ IsIdentifier(arg)) => res = arg

\* a name that the first pass changed and the second pass left alone
C15_Witness ==
    /\ fn = "_normalize_var twice"
    /\ arg = <<"1", " ", "a">>
    /\ given = <<"_", "1", "_", "a">>
    /\ res = given

\* C16: for a let body made of N steps separated by top-level commas, with
\* balanced brackets and further commas only inside (), [], {} groups or
\* inside quoted strings, _split_let_body returns exactly the N steps, in
\* source order, without the separating commas.
C16_SplitReturnsTheSteps ==
    fn = "_split_let_body" => res = given

\* ---- helpers: the end of an extraction call
Ended(t) == th[t].pc \in {"returned", "raised"}

\* the session of t's call is released: document closed if it was opened,
\* host quit, COM uninitialised once for its one initialisation
Released(t) ==
    /\ proc[t].host = "quit"
    /\ proc[t].doc # "open"
    /\ proc[t].com = 0
    /\ proc[t].uninit = 1

\* C17: every extraction call that started a host process ends, on every
\* exit path, with the workbook closed if it was opened, the host process
\* quit and the COM runtime uninitialised exactly once.
C17_SessionReleasedOnEveryExit ==
    \A t \in Threads : (Ended(t) /\ proc[t].host # "none") => Released(t)

\* C18: two extraction calls running concurrently in one process never both
\* hold a live automation session (a started host process not yet quit).
C18_SessionsSerialized ==
    ~ \A t \in Threads : proc[t].host = "running"

\* ---- helpers: what a call read and what it returned
\* the name under which the k-th item read goes into the result
EffName(t, k) ==
    LET nm == NameOf(book[t][k].name)
    IN IF nm # NoneStr THEN nm
       ELSE IF book[t][k].kind = "query" THEN Query_(k)
       ELSE IF book[t][k].kind = "connection" THEN Connection_(k)
       ELSE NoneStr
\* the k-th item was read without failure and is one the call asked for
ReadOk(t, k) ==
    /\ book[t][k].read \in {"ok", "no_values"}
    /\ EffName(t, k) # NoneStr
    /\ ~NotWanted(th[t].want, EffName(t, k))
ReadFailed(t, k) == book[t][k].read = "com_error"

\* C19: when reading one item fails, that item alone is left out: the
\* extraction goes on with the next item and returns normally, every entry
\* of the result comes from an item that was read successfully (or is the
\* empty list of a requested name), every item that was read successfully
\* is returned, and the session is released.
C19_FailedItemAloneLeftOut ==
    \A t \in Threads :
        (Ended(t) /\ book[t] # <<>>) =>
            /\ th[t].pc = "returned"
            /\ Released(t)
            /\ \A n \in DOMAIN th[t].out :
                   \/ \E k \in 1..Len(book[t]) :
                          /\ ReadOk(t, k)
                          /\ EffName(t, k) = n
                          /\ th[t].out[n] = book[t][k].rows
                   \/ n \in th[t].want.names /\ th[t].out[n] = <<>>
            /\ \A k \in 1..Len(book[t]) :
                   ReadOk(t, k) =>
                       /\ EffName(t, k) \in DOMAIN th[t].out
                       /\ \/ th[t].out[EffName(t, k)] = book[t][k].rows
                          \/ \E j \in (k + 1)..Len(book[t]) :
                                 /\ ReadOk(t, j)
                                 /\ EffName(t, j) = EffName(t, k)

\* a call whose first item failed and whose second item was read and is
\* returned, with the session released
C19_Witness ==
    /\ th["t1"].pc = "returned"
    /\ Len(book["t1"]) = 2
    /\ ReadFailed("t1", 1)
    /\ ReadOk("t1", 2)
    /\ DOMAIN th["t1"].out = { EffName("t1", 2) }
    /\ th["t1"].out[EffName("t1", 2)] = RowsOf(2)
    /\ Released("t1")

\* ---- helpers: the requested names
\* the call of the tables extraction with a non-empty set of names returned
TablesReturned(t) ==
    /\ th[t].pc = "returned"
    /\ th[t].fn = "tables"
    /\ th[t].names.some
    /\ th[t].names.names # {}
\* the workbook provided an item under the name n
Provided(t, n) == \E k \in 1..Len(book[t]) : ReadOk(t, k) /\ EffName(t, k) = n
\* the lookup of the emitted code gives an empty table for an absent name
AbsentReadsEmpty(t) ==
    (th[t].got.done /\ th[t].got.name \notin DOMAIN th[t].out) => th[t].got.rows = <<>>

Handled == fn # "none"

\* the operation families of the recognizer table that are written as a
\* call, each with the block of the matcher chain that bears its name
C21_Families ==
    { << <<"C","s","v",".","D","o","c","u","m","e","n","t">>, "Csv.Document" >>,
      << <<"T","a","b","l","e",".","P","r","o","m","o","t","e","H","e","a","d","e","r","s">>, "Table.PromoteHeaders" >>,
      << <<"T","a","b","l","e",".","T","r","a","n","s","f","o","r","m","C","o","l","u","m","n","T","y","p","e","s">>, "Table.TransformColumnTypes" >>,
      << <<"T","a","b","l","e",".","F","r","o","m","R","e","c","o","r","d","s">>, "Table.FromRecords" >>,
      << <<"#","t","a","b","l","e">>, "#table" >>,
      << <<"T","a","b","l","e",".","A","d","d","C","o","l","u","m","n">>, "Table.AddColumn" >>,
      << <<"T","a","b","l","e",".","S","e","l","e","c","t","R","o","w","s">>, "Table.SelectRows" >>,
      << <<"T","a","b","l","e",".","S","o","r","t">>, "Table.Sort" >>,
      << <<"T","a","b","l","e",".","G","r","o","u","p">>, "Table.Group" >>,
      << <<"T","a","b","l","e",".","E","x","p","a","n","d","R","e","c","o","r","d","C","o","l","u","m","n">>, "Table.ExpandRecordColumn" >>,
      << <<"T","a","b","l","e",".","E","x","p","a","n","d","T","a","b","l","e","C","o","l","u","m","n">>, "Table.ExpandTableColumn" >>,
      << <<"T","a","b","l","e",".","J","o","i","n">>, "Table.Join" >>,
      << <<"T","a","b","l","e",".","U","n","p","i","v","o","t","O","t","h","e","r","C","o","l","u","m","n","s">>, "Table.UnpivotOtherColumns" >>,
      << <<"T","a","b","l","e",".","U","n","p","i","v","o","t">>, "Table.Unpivot" >>,
      << <<"T","a","b","l","e",".","P","i","v","o","t">>, "Table.Pivot" >>,
      << <<"T","a","b","l","e",".","D","i","s","t","i","n","c","t">>, "Table.Distinct" >>,
      << <<"T","a","b","l","e",".","R","e","m","o","v","e","R","o","w","s","W","i","t","h","E","r","r","o","r","s">>, "Table.RemoveRowsWithErrors" >>,
      << <<"T","a","b","l","e",".","F","r","o","m","R","o","w","s">>, "Table.FromRows" >>,
      << <<"E","x","c","e","l",".","C","u","r","r","e","n","t","W","o","r","k","b","o","o","k">>, "Excel.CurrentWorkbook" >> }

\* the right-hand side is exactly one call of a family, or one identifier
C21_OneCall ==
    \/ arg \in CurrentWorkbookRhs \cup ReferenceRhs
    \/ arg \in SingleCalls /\ \E f \in C21_Families : f[1] = arg[1]

\* C21: a step whose right-hand side is exactly one call of a family of the
\* recognizer table (a direct reference included) is handled by the block
\* of that family's matcher and never by the fallback.
C21_FamilyMatcherHandles ==
    (Handled /\ C21_OneCall) =>
        /\ fn # "fallback"
        /\ arg \in ReferenceRhs => fn = "reference"
        /\ arg \notin ReferenceRhs => << arg[1], fn >> \in C21_Families

\* the coercion the recognizer table gives a type tag, "none" for a tag it
\* does not know
C22_Coercion(tag) ==
    IF tag = << <<"t","y","p","e">>, <<"t","e","x","t">> >> THEN "string"
    ELSE IF tag = << <<"t","y","p","e">>, <<"d","a","t","e","t","i","m","e">> >> THEN "datetime"
    ELSE IF tag = << <<"I","n","t","6","4",".","T","y","p","e">> >> THEN "Int64"
    ELSE IF tag = << <<"n","u","m","b","e","r">> >> THEN "float"
    ELSE "none"

\* the statement is the one the table gives the pair (col, tag)
C22_StatementFor(stmt, col, tag) ==
    /\ stmt.col = col
    /\ stmt.ty = C22_Coercion(tag)
    /\ C22_Coercion(tag) = "none" <=> stmt.op \in { "comment_todo", "comment_kept" }

\* C22: a declare-column-types step emits, after the copy of its source,
\* one statement for every (column, type-tag) pair of its list, in order: the
\* coercion of the tag (string, float, nullable integer, date-time) when the
\* tag is known, written `type text` or as a dotted name, and a comment for
\* any other tag.
C22_OneStatementPerPair ==
    \A tags \in SeqsUpTo(TypeTags, MaxPairs) \ { <<>> } :
        (Handled /\ arg = CallOf(<<"T","a","b","l","e",".","T","r","a","n","s","f","o","r","m","C","o","l","u","m","n","T","y","p","e","s">>, << SrcS, TypeList(tags) >>)) =>
            /\ fn = "Table.TransformColumnTypes"
            /\ res.exc = "none"
            /\ Len(res.py) = 1 + Len(tags)
            /\ \A k \in 1..Len(tags) :
                   C22_StatementFor(res.py[k + 1], ColumnNames[k], tags[k])

\* the key arguments of the join steps with the key lists they stand for
C23_KeyArgs ==
    { [toks |-> << Str(<<"k","1">>) >>, keys |-> << <<"k","1">> >>],
      [toks |-> StrList(<< <<"k","1">>, <<"k","2">> >>), keys |-> << <<"k","1">>, <<"k","2">> >>],
      [toks |-> << Str(<<"k","3">>) >>, keys |-> << <<"k","3">> >>],
      [toks |-> StrList(<< <<"k","3">>, <<"k","4">> >>), keys |-> << <<"k","3">>, <<"k","4">> >>] }
\* the four kinds of the recognizer table
C23_Kinds ==
    { [toks |-> <<"J","o","i","n","K","i","n","d",".","I","n","n","e","r">>, how |-> <<"i","n","n","e","r">>],
      [toks |-> <<"J","o","i","n","K","i","n","d",".","L","e","f","t","O","u","t","e","r">>, how |-> <<"l","e","f","t">>],
      [toks |-> <<"J","o","i","n","K","i","n","d",".","R","i","g","h","t","O","u","t","e","r">>, how |-> <<"r","i","g","h","t">>],
      [toks |-> <<"J","o","i","n","K","i","n","d",".","F","u","l","l","O","u","t","e","r">>, how |-> <<"o","u","t","e","r">>] }
\* the extra argument of the call form of test_multikey_join, or none
C23_Extras == { <<>>, << << Str(<<"B","c","o","l","s">>) >> >> }

\* C23: a join step with a key or key list for each side and a JoinKind,
\* with or without the extra argument of the test's call form, emits one
\* merge statement whose key lists are the step's, in order, and whose
\* kind is the one named.
C23_OneMergeWithKeysAndKind ==
    \A lk \in C23_KeyArgs, rk \in C23_KeyArgs, kind \in C23_Kinds, extra \in C23_Extras :
        (/\ Handled
         /\ arg = CallOf(<<"T","a","b","l","e",".","J","o","i","n">>, << SrcS, lk.toks, << <<"B">> >>, rk.toks >>
                                          \o extra \o << << kind.toks >> >>)) =>
            /\ fn = "Table.Join"
            /\ Len(res.py) = 1
            /\ res.py[1].op = "merge"
            /\ res.py[1].left = <<"S">> /\ res.py[1].right = <<"B">>
            /\ res.py[1].left_on = lk.keys
            /\ res.py[1].right_on = rk.keys
            /\ res.py[1].how = kind.how

\* the same for the call form without the extra argument: this much the
\* code does
C23_PlainFormHolds ==
    \A lk \in C23_KeyArgs, rk \in C23_KeyArgs, kind \in C23_Kinds :
        (/\ Handled
         /\ arg = CallOf(<<"T","a","b","l","e",".","J","o","i","n">>, << SrcS, lk.toks, << <<"B">> >>, rk.toks, << kind.toks >> >>)) =>
            /\ fn = "Table.Join"
            /\ Len(res.py) = 1
            /\ res.py[1].op = "merge"
            /\ res.py[1].left_on = lk.keys
            /\ res.py[1].right_on = rk.keys
            /\ res.py[1].how = kind.how

\* a boolean primitive of the target language
C24_Bool(b) == [ty |-> "bool", n |-> IF b THEN 1 ELSE 0, s |-> <<>>, d |-> <<>>]

\* the value tokens with the value the classification rule gives each
C24_Classes ==
    { << <<"\"","x","\"">>, PyStr(<<"x">>) >>, << <<"\"","1","\"">>, PyStr(<<"1">>) >>, << <<"\"","\"">>, PyStr(<<>>) >>,
      << <<"1">>, PyInt(1) >>, << <<"2">>, PyInt(2) >>, << <<"-","3">>, PyInt(0 - 3) >>,
      << <<"1","_","0">>, PyInt(10) >>,
      << <<"1",".","5">>, PyFloat(<<"1",".","5">>) >>, << <<"1","e","3">>, PyFloat(<<"1","e","3">>) >>, << <<".","5">>, PyFloat(<<".","5">>) >>,
      << <<"n","a","n">>, PyFloat(<<"n","a","n">>) >>,
      << <<"t","r","u","e">>, C24_Bool(TRUE) >>, << <<"T","r","u","e">>, C24_Bool(TRUE) >>,
      << <<"F","A","L","S","E">>, C24_Bool(FALSE) >>,
      << <<"n","u","l","l">>, PyNone >>, << <<"N","U","L","L">>, PyNone >>,
      << <<"f","o","o">>, PyStr(<<"f","o","o">>) >>, << <<"T","1">>, PyStr(<<"T","1">>) >> }

\* the step is a record list or a row matrix with the one value token tok
\* in column A
C24_LiteralOf(tok) ==
    \/ arg = CallOf(<<"T","a","b","l","e",".","F","r","o","m","R","e","c","o","r","d","s">>,
                    << Braced(<< << LBrack, <<"A">>, EqSign, tok, RBrack >> >>) >>)
    \/ arg = CallOf(<<"#","t","a","b","l","e">>, << StrList(<< <<"A">> >>), Braced(<< Braced(<< << tok >> >>) >>) >>)

\* the emitted table has the one row {A: val}
C24_OneRow(val) ==
    /\ fn \in { "Table.FromRecords", "#table" }
    /\ Len(res.py) = 1
    /\ res.py[1].rows = << << [k |-> <<"A">>, v |-> val] >> >>

\* C24: a value token of a record literal or row matrix becomes the string
\* without its quotes when quoted, else an integer if it parses as one, else
\* a float if it parses as one; true, false and null in any letter case
\* become the boolean and absent-value primitives; any other token stays a
\* raw string.
C24_ValueClasses ==
    \A p \in C24_Classes : (Handled /\ C24_LiteralOf(p[1])) => C24_OneRow(p[2])

\* the rule without its clause on true, false and null: this much the
\* code does
C24_HoldsButForPrimitives ==
    \A p \in C24_Classes :
        (Handled /\ C24_LiteralOf(p[1]) /\ p[2].ty \notin { "bool", "None" })
            => C24_OneRow(p[2])

\* the example of the rule: two records give the rows {A: 1, B: "x"} and
\* {A: 2, B: "y"}
C24_ExampleRows ==
    (Handled /\ arg = CallOf(<<"T","a","b","l","e",".","F","r","o","m","R","e","c","o","r","d","s">>,
                             << Braced(<< Rec2(<<"1">>, <<"\"","x","\"">>), Rec2(<<"2">>, <<"\"","y","\"">>) >>) >>))
        => res.py[1].rows =
               << << [k |-> <<"A">>, v |-> PyInt(1)], [k |-> <<"B">>, v |-> PyStr(<<"x">>)] >>,
                  << [k |-> <<"A">>, v |-> PyInt(2)], [k |-> <<"B">>, v |-> PyStr(<<"y">>)] >> >>

\* the two expand operations, each with the block that bears its name
C25_Expands ==
    { [f |-> <<"T","a","b","l","e",".","E","x","p","a","n","d","R","e","c","o","r","d","C","o","l","u","m","n">>, op |-> "Table.ExpandRecordColumn"],
      [f |-> <<"T","a","b","l","e",".","E","x","p","a","n","d","T","a","b","l","e","C","o","l","u","m","n">>, op |-> "Table.ExpandTableColumn"] }

\* some emitted statement selects the fields, and every emitted renaming
\* keeps their names
C25_LiftedAs(fields, names) ==
    /\ \E k \in 1..Len(res.py) : res.py[k].op = "select" /\ res.py[k].fields = fields
    /\ \A k \in 1..Len(res.py) :
           res.py[k].op = "rename" => res.py[k].fields = fields /\ res.py[k].newnames = names

\* C25: an expand-record or expand-table step with a source table, a column
\* and a field list but no rename list is handled by its own block, not by
\* the fallback, and lifts the listed fields under their original names.
C25_ExpandWithoutRenameList ==
    \A e \in C25_Expands, fields \in SeqsUpTo(FieldNames, MaxFields) \ { <<>> } :
        (Handled /\ arg = CallOf(e.f, << SrcS, << Str(<<"R","e","c">>) >>, StrList(fields) >>)) =>
            /\ fn = e.op
            /\ C25_LiftedAs(fields, fields)

\* the pieces of toks between the tokens that are in seps, and those tokens
RECURSIVE C26_Pieces(_, _)
C26_Pieces(toks, seps) ==
    LET at == { i \in 1..Len(toks) : toks[i] \in seps }
    IN IF at = {} THEN << toks >>
       ELSE << SubSeq(toks, 1, SetMin(at) - 1) >>
            \o C26_Pieces(SubSeq(toks, SetMin(at) + 1, Len(toks)), seps)
C26_Ops(toks, seps) == SelectSeq(toks, LAMBDA t : t \in seps)

\* operands joined by operators, in one pair of parentheses when there is
\* an operator at all
RECURSIVE C26_Chain(_, _)
C26_Chain(operands, ops) ==
    IF Len(operands) = 1 THEN operands[1]
    ELSE operands[1] \o << ops[1] >> \o C26_Chain(Tail(operands), Tail(ops))
C26_Group(operands, ops) ==
    IF Len(operands) = 1 THEN operands[1]
    ELSE << LPar >> \o C26_Chain(operands, ops) \o << RPar >>

C26_Comparisons == { <<"=","=">>, <<"!","=">>, <<"<">>, <<"<","=">>, <<">">>, <<">","=">> }

\* the grouping Python gives the tokens of a mask, fully parenthesised:
\* unary ~ binds tightest, then &, then |, and the comparisons, chained,
\* come last
RECURSIVE C26_PyUnary(_)
C26_PyUnary(toks) ==
    IF toks # <<>> /\ toks[1] = <<"~">>
    THEN << LPar, <<"~">> >> \o C26_PyUnary(Tail(toks)) \o << RPar >>
    ELSE toks
C26_PyLevel(toks, seps, below(_)) ==
    C26_Group([k \in 1..Len(C26_Pieces(toks, seps)) |-> below(C26_Pieces(toks, seps)[k])],
              C26_Ops(toks, seps))
C26_PyAnd(toks) == C26_PyLevel(toks, { <<"&">> }, C26_PyUnary)
C26_PyOr(toks) == C26_PyLevel(toks, { <<"|">> }, C26_PyAnd)
C26_PythonGrouping(toks) == C26_PyLevel(toks, C26_Comparisons, C26_PyOr)

\* the grouping of the source predicate, fully parenthesised and written
\* with the operators of the mask: each comparison first, then not, then
\* and, then or
C26_SrcComparison(toks) == << LPar >> \o Mask(<<"S">>, toks) \o << RPar >>
RECURSIVE C26_SrcNot(_)
C26_SrcNot(toks) ==
    IF toks # <<>> /\ toks[1] = <<"n","o","t">>
    THEN << LPar, <<"~">> >> \o C26_SrcNot(Tail(toks)) \o << RPar >>
    ELSE C26_SrcComparison(toks)
C26_SrcLevel(toks, word, op, below(_)) ==
    C26_Group([k \in 1..Len(C26_Pieces(toks, { word })) |->
                  below(C26_Pieces(toks, { word })[k])],
              [k \in 1..Len(C26_Ops(toks, { word })) |-> op])
C26_SrcAnd(toks) == C26_SrcLevel(toks, <<"a","n","d">>, <<"&">>, C26_SrcNot)
C26_SourceGrouping(toks) == C26_SrcLevel(toks, <<"o","r">>, <<"|">>, C26_SrcAnd)

\* C26: the row mask emitted for a filter step groups the predicate as the
\* source does: each comparison is evaluated first, then not binds tighter
\* than and, which binds tighter than or.
C26_MaskGroupsAsSource ==
    \A p \in Predicates(MaxTerms) :
        (Handled /\ arg = CallOf(<<"T","a","b","l","e",".","S","e","l","e","c","t","R","o","w","s">>, << SrcS, << <<"e","a","c","h">> >> \o p >>)) =>
            /\ fn = "Table.SelectRows"
            /\ C26_PythonGrouping(res.py[1].cond) = C26_SourceGrouping(p)

\* the same for a predicate that is one comparison: this much the code does
C26_OneComparisonHolds ==
    \A p \in Comparisons :
        (Handled /\ arg = CallOf(<<"T","a","b","l","e",".","S","e","l","e","c","t","R","o","w","s">>, << SrcS, << <<"e","a","c","h">> >> \o p >>)) =>
            /\ fn = "Table.SelectRows"
            /\ C26_PythonGrouping(res.py[1].cond) = C26_SourceGrouping(p)

\* no name stands twice in the list (M rejects an expand step that names a
\* field twice)
C27_Distinct(names) == \A i, j \in 1..Len(names) : names[i] = names[j] => i = j

\* the names the fields get from the rename list ns: name i for field i
\* when the list is not empty and as long as the field list, else their own
C27_NamesFor(fields, ns) == IF ns # <<>> /\ Len(ns) = Len(fields) THEN ns ELSE fields

\* the statements keep exactly the fields, then rename field i to names[i],
\* then join the lifted columns
C27_LiftedAs(fields, names) ==
    \E s, r, j \in 1..Len(res.py) :
        /\ s < r /\ r < j /\ j = Len(res.py)
        /\ res.py[s].op = "select" /\ res.py[s].fields = fields
        /\ res.py[r].op = "rename"
        /\ res.py[r].fields = fields /\ res.py[r].newnames = names
        /\ res.py[j].op = "join"
        /\ \A k \in 1..Len(res.py) :
               res.py[k].op \in { "select", "rename" } => k \in { s, r }

\* the step expands column Rec of S by e, with the field list and the
\* rename list given
C27_Step(e, fields, ns) ==
    /\ Handled
    /\ arg = CallOf(e.f, << SrcS, << Str(<<"R","e","c">>) >>, StrList(fields), StrList(ns) >>)

C28_Identifiers == { _normalize_var(n) : n \in RawNames }

\* every step processed so far binds the normalization of a binding name,
\* and every statement in the buffer that binds or updates a step's
\* identifier names one
C28_BindingNamesAlone ==
    /\ \A k \in 1..Len(steps) : _normalize_var(steps[k].lhs_raw) \in C28_Identifiers
    /\ pc = "loop" =>
           \A k \in 1..Len(py) : py[k].target # NoneStr => py[k].target \in C28_Identifiers

\* C28: for a script that opens with `let` and has no `in` clause, each
\* step's emitted identifier is the normalization of its binding name alone:
\* the `let` keyword is not part of the first step's name.
C28_NoInClauseSameIdentifiers ==
    (m_code.hasLet /\ m_code.inName = NoneStr) => C28_BindingNamesAlone

\* the same with the `in` clause present, and for a bare list of bindings:
\* this much the code does
C28_OtherShapesHold ==
    (pc # "idle" /\ ~(m_code.hasLet /\ m_code.inName = NoneStr)) => C28_BindingNamesAlone

\* a step has just been processed: the loop goes on and steps has grown
C29_StepProcessed == pc' = "loop" /\ Len(steps') = Len(steps) + 1

\* what the invariant says of the step just processed, whose statements are
\* the entries the buffer has gained
C29_AfterStep ==
    LET k == Len(steps')
        name == steps'[k].lhs_raw
        new == SubSeq(py', Len(py) + 1, Len(py'))
    IN /\ name \in RawNames
       /\ last_df' = _normalize_var(name)
       /\ \A x \in DOMAIN env' : x \in RawNames /\ env'[x] = _normalize_var(x)
       /\ SubSeq(py', 1, Len(py)) = py
       /\ new # <<>>
       /\ \A i \in 1..Len(new) : new[i].target \in { NoneStr, _normalize_var(name) }
       /\ (steps'[k].op = "fallback" /\ k > 1) =>
              \E i \in 1..Len(new) :
                  /\ new[i].tag = "copy"
                  /\ new[i].src = _normalize_var(steps[k - 1].lhs_raw)
                  /\ steps[k - 1].lhs_raw \in RawNames

\* C29: after every processed step, recognized or fallback, the last
\* produced identifier is the normalized binding name of that step, every
\* Binding Environment entry maps a raw binding name to its own
\* normalization, and the step's statements stand in the buffer after those
\* of the steps before it; hence a fallback step copies the identifier of
\* the step immediately before it.
C29_LoopInvariant == [][C29_StepProcessed => C29_AfterStep]_vars

\* the same for scripts with an `in` clause and for bare lists of bindings:
\* this much the code does
C29_HoldsWithInClause ==
    [][(C29_StepProcessed /\ ~(m_code.hasLet /\ m_code.inName = NoneStr))
           => C29_AfterStep]_vars

\* ------------------------------------------------- claims of one step, continued
\* C30: a step whose right-hand side is a call of a function no matcher
\* knows is handled by the fallback even when a recognized call is its
\* argument: a matcher does not consume part of an enclosing expression.
C30_OnlyOutermostCall ==
    (Handled /\ arg \in WrappedRhs) => fn = "fallback"

\* the same for every wrapped call but a filter call and an add-column
\* call: this much the code does
C30_OtherWrappedCallsFallBack ==
    (Handled /\ arg \in WrappedRhs
        /\ arg[3] \notin { <<"T","a","b","l","e",".","S","e","l","e","c","t","R","o","w","s">>, <<"T","a","b","l","e",".","A","d","d","C","o","l","u","m","n">> }) => fn = "fallback"

====
